---- MODULE Spec2Model ----
(***************************************************************************)
(* Pollard's Rho walk-and-collision engine of ed25519-dream-crusher        *)
(* (lib/pollard-rho.ts): partitionFunction, iterationStep, modInverse,     *)
(* solveForK, initializeState and performIterations; and the scheduler     *)
(* that runs it in batches, the usePollardRho hook.                        *)
(*                                                                         *)
(* The curve library is an external primitive.  It is modelled by the      *)
(* cyclic group Z_n with generator G = 1, so that a point IS its discrete  *)
(* logarithm: k*G is the point k mod n and Q = k*G is the point k.  The    *)
(* group order n and the canonical encoding of the points are parameters   *)
(* of a run (variables n and enc, fixed by Init and never changed).        *)
(* JavaScript arithmetic is kept as the code computes it: BigInt % and /   *)
(* truncate towards zero, << and | work on signed 32-bit integers.         *)
(***************************************************************************)
EXTENDS Integers, Sequences, FiniteSets, TLC

VARIABLES
    n,      \* the group order (const n = ed25519.CURVE.n)
    enc,    \* enc[p]: first four bytes of point p's canonical encoding
    st,     \* the AlgorithmState held by the caller
    res,    \* outcome of the last performIterations call
    log,    \* per-tick history of the last performIterations call
    ghost,  \* history: where the current walk started, ticks made since
    arg,    \* input of a directly applied pure function
    ret,    \* its output
    hook,   \* the usePollardRho hook: React state, refs, host callbacks
    storage \* localStorage: the item 'pollard-rho-state'

vars == <<n, enc, st, res, log, ghost, arg, ret, hook, storage>>

(***************************************************************************)
(* Bounds of the model.                                                    *)
(***************************************************************************)
MaxBatch == 3       \* batch sizes 1..MaxBatch
MaxIter  == 10      \* performIterations is not called beyond this count
MaxSteps == 3       \* length of a chain of direct iterationStep calls

Orders      == {5, 7}       \* prime group orders of the walk and the solver
StepOrders  == {3, 5}       \* group orders of the direct iterationStep runs
ToyOrders   == {23}         \* the toy group of the k = 2 scenario
ToyKeys     == {2}
ToyModuli   == 2..4         \* the toy encodings: residue classes p % m = r
ToyMaxIter  == 200          \* the toy run is followed up to this count
AnyOrders   == {4, 5, 6}    \* group orders, composite ones included
Slack       == 1            \* coefficients are drawn from -Slack..n-1+Slack

HookOrders   == {5}         \* group order of the walks the hook runs
HookKeys     == {2}         \* targets Q = k*G given to start()
BadKey       == <<>>        \* the empty text, a public key parsePublicKey rejects
SpeedLevels  == {"slow", "medium"}   \* levels given to setSpeedLevel
Throughputs  == {40}        \* measured ops/sec values
HookMaxIter  == 4           \* no batch starts at or beyond this iteration
MaxInFlight  == 1           \* start() calls whose initialization is pending
MaxFrames    == 2           \* animation frame requests pending at a time
CodecOrders  == {5}         \* group orders of the encoded walks
CodecKeys    == {2}         \* targets Q = k*G of the encoded walks
CodecSpeeds  == {0, 255}    \* speeds given to stateToCompact and saveState
CodecMaxIter == 3           \* iterations a walk makes before it is encoded
TimeOrders   == {5, 7, 23}  \* group orders of the time estimates
SpeedSamples == {-1, 0, 1, 40}   \* opsPerSecond values given to calculateRemainingTime
MaxElapsed   == 5           \* largest iteration count a time estimate is asked for
InverseModuli == {4, 5, 6, 7, 9}   \* moduli given to modInverse

\* Four-byte prefixes a point encoding may start with: one hashed to
\* partition 3 (update rule (1, 0)), and one with the top bit set that the
\* hash sends to partition 14 (update rule (2, 1)).
Words == { <<0, 0, 0, 3>>, <<255, 255, 255, 242>> }

\* Bytes from which the inputs of the partition hash are drawn.
ByteSamples == {0, 1, 19, 127, 128, 255}

\* e is evaluated once and its value given to Body: a const binding.
Let(e, Body(_)) == CHOOSE r \in { Body(x) : x \in {e} } : TRUE

Null == <<>>
Some(k) == <<k>>

(***************************************************************************)
(* JavaScript integer arithmetic.                                          *)
(***************************************************************************)
Abs(x) == IF x < 0 THEN -x ELSE x

\* BigInt / Number remainder: the sign of the result is the dividend's.
JSRem(a, m) == IF a >= 0 THEN a % Abs(m) ELSE -((-a) % Abs(m))

\* BigInt division: truncates towards zero.
JSDiv(a, b) ==
    IF (a < 0) = (b < 0) THEN Abs(a) \div Abs(b) ELSE -(Abs(a) \div Abs(b))

\* A signed 32-bit integer (the result of every bitwise operator) is kept as
\* its bit pattern, split into two 16-bit halves <<high, low>>: the model
\* checker's integers are themselves 32 bits wide.
Int32Zero == <<0, 0>>

\* (hash << 8) | byte, for a byte in 0..255
ShlOr8(hash, byte) ==
    <<(hash[1] * 256 + (hash[2] \div 256)) % 65536, ((hash[2] * 256) % 65536) + byte>>

\* hash % 20 of a signed 32-bit integer: negative when bit 31 is set, with
\* magnitude 2^32 - pattern; 65536 % 20 = 16.
Int32Rem20(hash) ==
    IF hash[1] >= 32768
    THEN -((((65535 - hash[1]) % 20) * 16 + (65536 - hash[2])) % 20)
    ELSE ((hash[1] % 20) * 16 + hash[2]) % 20

(***************************************************************************)
(* The group primitive (Z_n, G = 1).                                       *)
(***************************************************************************)
G == 1 % n
ZERO == 0

PointAdd(p, q) == (p + q) % n

\* Point.multiply(scalar) accepts 1 <= scalar < n and throws otherwise.
MultiplyThrows(scalar) == ~(1 <= scalar /\ scalar < n)
Multiply(p, scalar) == (p * scalar) % n

\* toRawBytes is canonical: two points have the same bytes iff they are the
\* same group element.  Only the first four bytes are represented.
ToRawBytes(point) == enc[point]

\* pointsEqual compares the two encodings byte by byte.
PointsEqual(p1, p2) == p1 = p2

(***************************************************************************)
(* Strings.  A string is the sequence of its characters.                   *)
(***************************************************************************)
HexDigits == <<"0", "1", "2", "3", "4", "5", "6", "7",
               "8", "9", "a", "b", "c", "d", "e", "f">>
UpperDigits == <<"0", "1", "2", "3", "4", "5", "6", "7",
                 "8", "9", "A", "B", "C", "D", "E", "F">>

\* String.prototype.slice(from) and slice(from, to), 0-based, to exclusive
Slice(str, from) == SubSeq(str, from + 1, Len(str))
Slice2(str, from, to) == SubSeq(str, from + 1, IF to < Len(str) THEN to ELSE Len(str))

StartsWith(str, prefix) ==
    Len(str) >= Len(prefix) /\ SubSeq(str, 1, Len(prefix)) = prefix

\* str.trim().replace(/\s/g, '')
RemoveWhitespace(str) == SelectSeq(str, LAMBDA ch : ch # " ")

IsHexChar(ch) == \E d \in 1..16 : ch = HexDigits[d] \/ ch = UpperDigits[d]

\* /^[0-9a-fA-F]+$/.test(str)
IsHexString(str) == str # <<>> /\ \A i \in 1..Len(str) : IsHexChar(str[i])

\* The value of a hexadecimal digit
DigitValue(ch) == (CHOOSE d \in 1..16 : ch = HexDigits[d] \/ ch = UpperDigits[d]) - 1

ToLowerCase(str) == [i \in 1..Len(str) |-> HexDigits[DigitValue(str[i]) + 1]]

\* The digits of a non-negative integer in base 16
RECURSIVE Digits16(_)
Digits16(v) ==
    IF v < 16 THEN <<HexDigits[v + 1]>>
    ELSE Append(Digits16(v \div 16), HexDigits[(v % 16) + 1])

\* Number.prototype.toString(16) and BigInt.prototype.toString(16)
ToString16(v) == IF v < 0 THEN <<"-">> \o Digits16(-v) ELSE Digits16(v)

\* The value of a string of hexadecimal digits
RECURSIVE HexValue(_)
HexValue(str) ==
    IF str = <<>> THEN 0
    ELSE 16 * HexValue(SubSeq(str, 1, Len(str) - 1)) + DigitValue(str[Len(str)])

\* str.padStart(width, '0')
PadStart(str, width) ==
    IF Len(str) >= width THEN str
    ELSE [i \in 1..(width - Len(str)) |-> "0"] \o str

\* BigInt('0x' + str): a SyntaxError unless str is a string of hex digits
BigIntOfHex(str) ==
    IF IsHexString(str) THEN [threw |-> FALSE, value |-> HexValue(str)]
    ELSE [threw |-> TRUE, value |-> 0]

NaN == "NaN"

\* The longest prefix of str made of hexadecimal digits
RECURSIVE HexPrefix(_)
HexPrefix(str) ==
    IF str # <<>> /\ IsHexChar(Head(str)) THEN <<Head(str)>> \o HexPrefix(Tail(str))
    ELSE <<>>

\* Leading white space removed
RECURSIVE TrimStart(_)
TrimStart(str) == IF str # <<>> /\ Head(str) = " " THEN TrimStart(Tail(str)) ELSE str

\* parseInt(str, 16): white space, a sign, an optional 0x, then the longest
\* run of hexadecimal digits; NaN if that run is empty.
ParseInt16(str) ==
    LET t == TrimStart(str)
        negative == t # <<>> /\ Head(t) = "-"
        unsigned == IF t # <<>> /\ Head(t) \in {"-", "+"} THEN Tail(t) ELSE t
        body == IF StartsWith(unsigned, <<"0", "x">>) \/ StartsWith(unsigned, <<"0", "X">>)
                THEN Slice(unsigned, 2) ELSE unsigned
        run == HexPrefix(body)
    IN  IF run = <<>> THEN NaN
        ELSE IF negative THEN -HexValue(run) ELSE HexValue(run)

\* parts.join('|')
RECURSIVE Join(_)
Join(parts) ==
    IF parts = <<>> THEN <<>>
    ELSE IF Len(parts) = 1 THEN parts[1]
    ELSE parts[1] \o <<"|">> \o Join(Tail(parts))

\* str.split('|'): the pieces between the bars
Split(str) ==
    LET bars == <<0>> \o SelectSeq([i \in 1..Len(str) |-> i],
                                   LAMBDA i : str[i] = "|")
                     \o <<Len(str) + 1>>
    IN  [j \in 1..(Len(bars) - 1) |-> SubSeq(str, bars[j] + 1, bars[j + 1] - 1)]

(***************************************************************************)
(* The canonical encoding of a point as text: 64 hexadecimal digits (32    *)
(* bytes).  The first four bytes are enc[point]; the other 28 are taken to *)
(* spell the point, which makes the encoding injective.                    *)
(***************************************************************************)
RECURSIVE BytesToHex(_)
BytesToHex(bytes) ==
    IF bytes = <<>> THEN <<>>
    ELSE PadStart(Digits16(Head(bytes)), 2) \o BytesToHex(Tail(bytes))

\* point.toHex()
ToHex(point) == BytesToHex(ToRawBytes(point)) \o PadStart(Digits16(point), 56)

\* ExtendedPoint.fromHex(hex): throws unless hex is the encoding of a point
FromHex(hex) ==
    IF IsHexString(hex) /\ Len(hex) = 64
          /\ \E point \in 0..(n - 1) : ToHex(point) = ToLowerCase(hex)
    THEN [threw |-> FALSE,
          point |-> CHOOSE point \in 0..(n - 1) : ToHex(point) = ToLowerCase(hex)]
    ELSE [threw |-> TRUE, point |-> 0]

\* validatePublicKeyFormat
ValidatePublicKeyFormat(pubkeyHex) ==
    LET unprefixed == IF StartsWith(pubkeyHex, <<"0", "x">>)
                         \/ StartsWith(pubkeyHex, <<"0", "X">>)
                      THEN Slice(pubkeyHex, 2) ELSE pubkeyHex
        clean == RemoveWhitespace(unprefixed)
    IN  IF ~IsHexString(clean) THEN FALSE ELSE Len(clean) = 64

\* parsePublicKey
ParsePublicKey(pubkeyHex) ==
    LET unprefixed == IF StartsWith(pubkeyHex, <<"0", "x">>)
                         \/ StartsWith(pubkeyHex, <<"0", "X">>)
                      THEN Slice(pubkeyHex, 2) ELSE pubkeyHex
        clean == RemoveWhitespace(unprefixed)
    IN  IF ~IsHexString(clean) THEN [threw |-> TRUE, point |-> 0]
        ELSE IF Len(clean) # 64 THEN [threw |-> TRUE, point |-> 0]
        ELSE FromHex(clean)

\* The public key string "0x" + hex of the point Q
PublicKeyOf(Q) == <<"0", "x">> \o ToHex(Q)

(***************************************************************************)
(* partitionFunction                                                       *)
(***************************************************************************)
RECURSIVE HashLoop(_, _, _)
HashLoop(xBytes, i, hash) ==
    IF i < (IF 4 < Len(xBytes) THEN 4 ELSE Len(xBytes))
    THEN HashLoop(xBytes, i + 1, ShlOr8(hash, xBytes[i + 1] % 256))
    ELSE hash

HashBytes(xBytes) == Abs(Int32Rem20(HashLoop(xBytes, 0, Int32Zero)))

PartitionFunction(point) == HashBytes(ToRawBytes(point))

C_LIST == <<1, 1, 1, 1, 1, 1, 1, 1, 1, 1, 2, 2, 2, 2, 2, 2, 2, 2, 2, 2>>
D_LIST == <<0, 0, 0, 0, 0, 0, 0, 0, 0, 0, 1, 1, 1, 1, 1, 1, 1, 1, 1, 1>>

(***************************************************************************)
(* iterationStep                                                           *)
(***************************************************************************)
\* iterationStep calling Q.multiply(d) also when d is 0
IterationStepNoSkip(pointP, alpha, beta, Q) ==
    Let(PartitionFunction(pointP), LAMBDA partition :
        LET c == C_LIST[partition + 1]
            d == D_LIST[partition + 1]
        IN  IF MultiplyThrows(c) \/ MultiplyThrows(d)
            THEN [threw |-> TRUE, point |-> pointP, alpha |-> alpha, beta |-> beta]
            ELSE [threw |-> FALSE,
                  point |-> PointAdd(PointAdd(pointP, Multiply(G, c)), Multiply(Q, d)),
                  alpha |-> JSRem(alpha + c, n),
                  beta  |-> JSRem(beta + d, n)])

\* iterationStep that adds d*Q to the point but leaves beta as it was
IterationStepStaleBeta(pointP, alpha, beta, Q) ==
    Let(PartitionFunction(pointP), LAMBDA partition :
        LET c == C_LIST[partition + 1]
            d == D_LIST[partition + 1]
            dQ == IF d = 0 THEN ZERO ELSE Multiply(Q, d)
        IN  [threw |-> MultiplyThrows(c) \/ (d # 0 /\ MultiplyThrows(d)),
             point |-> PointAdd(PointAdd(pointP, Multiply(G, c)), dQ),
             alpha |-> JSRem(alpha + c, n),
             beta  |-> JSRem(beta, n)])

\* iterationStep that does not reduce the coefficients modulo n
IterationStepUnreduced(pointP, alpha, beta, Q) ==
    Let(PartitionFunction(pointP), LAMBDA partition :
        LET c == C_LIST[partition + 1]
            d == D_LIST[partition + 1]
        IN  IF MultiplyThrows(c) \/ (d # 0 /\ MultiplyThrows(d))
            THEN [threw |-> TRUE, point |-> pointP, alpha |-> alpha, beta |-> beta]
            ELSE LET cG == Multiply(G, c)
                     dQ == IF d = 0 THEN ZERO ELSE Multiply(Q, d)
                 IN  [threw |-> FALSE,
                      point |-> PointAdd(PointAdd(pointP, cG), dQ),
                      alpha |-> alpha + c,
                      beta  |-> beta + d])

IterationStep(pointP, alpha, beta, Q) ==
    Let(PartitionFunction(pointP), LAMBDA partition :
        LET c == C_LIST[partition + 1]
            d == D_LIST[partition + 1]
        IN  IF MultiplyThrows(c) \/ (d # 0 /\ MultiplyThrows(d))
            THEN [threw |-> TRUE, point |-> pointP, alpha |-> alpha, beta |-> beta]
            ELSE LET cG == Multiply(G, c)
                     dQ == IF d = 0 THEN ZERO ELSE Multiply(Q, d)
                 IN  [threw |-> FALSE,
                      point |-> PointAdd(PointAdd(pointP, cG), dQ),
                      alpha |-> JSRem(alpha + c, n),
                      beta  |-> JSRem(beta + d, n)])

(***************************************************************************)
(* modInverse                                                              *)
(***************************************************************************)
RECURSIVE EuclidLoop(_, _, _, _)
EuclidLoop(old_r, r, old_s, s) ==
    IF r # 0
    THEN LET quotient == JSDiv(old_r, r)
         IN  EuclidLoop(r, old_r - quotient * r, s, old_s - quotient * s)
    ELSE [old_r |-> old_r, old_s |-> old_s]

ModInverse(a, m) ==
    LET e == EuclidLoop(a, m, 1, 0)
    IN  IF e.old_r > 1
        THEN [threw |-> TRUE, value |-> 0]
        ELSE [threw |-> FALSE,
              value |-> JSRem(IF e.old_s < 0 THEN e.old_s + m ELSE e.old_s, m)]

(***************************************************************************)
(* solveForK                                                               *)
(***************************************************************************)
\* solveForK returning the candidate without recomputing k*G
SolveForKUnverified(tortoiseAlpha, tortoiseBeta, hareAlpha, hareBeta, Q) ==
    LET betaDiff  == JSRem(hareBeta - tortoiseBeta, n)
        alphaDiff == JSRem(tortoiseAlpha - hareAlpha, n)
    IN  IF betaDiff = 0
        THEN Null
        ELSE LET inv == ModInverse(betaDiff, n)
             IN  IF inv.threw THEN Null
                 ELSE Some(JSRem(alphaDiff * inv.value, n))

\* solveForK dividing by 1 when the betas are congruent
SolveForKTrivialAsUnit(tortoiseAlpha, tortoiseBeta, hareAlpha, hareBeta, Q) ==
    LET betaDiff  == JSRem(hareBeta - tortoiseBeta, n)
        alphaDiff == JSRem(tortoiseAlpha - hareAlpha, n)
        inv == IF betaDiff = 0
               THEN [threw |-> FALSE, value |-> 1]
               ELSE ModInverse(betaDiff, n)
        k   == JSRem(alphaDiff * inv.value, n)
    IN  IF inv.threw THEN Null
        ELSE IF MultiplyThrows(k) THEN Null
        ELSE IF PointsEqual(Multiply(G, k), Q) THEN Some(k)
        ELSE Null

SolveForK(tortoiseAlpha, tortoiseBeta, hareAlpha, hareBeta, Q) ==
    LET betaDiff  == JSRem(hareBeta - tortoiseBeta, n)
        alphaDiff == JSRem(tortoiseAlpha - hareAlpha, n)
    IN  IF betaDiff = 0
        THEN Null
        ELSE LET inv == ModInverse(betaDiff, n)
                 k   == JSRem(alphaDiff * inv.value, n)
             IN  IF inv.threw THEN Null
                 ELSE IF MultiplyThrows(k) THEN Null
                 ELSE IF PointsEqual(Multiply(G, k), Q) THEN Some(k)
                 ELSE Null

(***************************************************************************)
(* initializeState (the target is given as the parsed point Q, its public  *)
(* key string being "0x" and the 64 digits of Q)                           *)
(***************************************************************************)
InitializeState(Q) ==
    LET startAlpha == 1
        startBeta  == 1
        startPoint == PointAdd(G, Q)
    IN  [publicKey     |-> PublicKeyOf(Q),
         iteration     |-> 0,
         tortoisePoint |-> startPoint,
         tortoiseAlpha |-> startAlpha,
         tortoiseBeta  |-> startBeta,
         harePoint     |-> startPoint,
         hareAlpha     |-> startAlpha,
         hareBeta      |-> startBeta,
         Q             |-> Q]

\* initializeState(publicKeyHex) for a key parsePublicKey accepts: the text
\* is stored as it was given.
InitializeStateText(publicKeyHex) ==
    [InitializeState(ParsePublicKey(publicKeyHex).point)
         EXCEPT !.publicKey = publicKeyHex]

(***************************************************************************)
(* performIterations                                                       *)
(*                                                                         *)
(* Locals(state) are the loop's local variables; Tick is one pass of the   *)
(* loop body, ForLoop the loop with its two return statements; its result  *)
(* also tells what the call left in the object it was given (input: the    *)
(* loop works on copies, so the object is as it was).  A tick              *)
(* also yields an entry of the history: the walkers before the steps,      *)
(* after the steps and at the end of the tick, and what the tick did.      *)
(***************************************************************************)
Locals(state) ==
    [tortoisePoint |-> state.tortoisePoint,
     tortoiseAlpha |-> state.tortoiseAlpha,
     tortoiseBeta  |-> state.tortoiseBeta,
     harePoint     |-> state.harePoint,
     hareAlpha     |-> state.hareAlpha,
     hareBeta      |-> state.hareBeta]

Tortoise(loc) ==
    [point |-> loc.tortoisePoint, alpha |-> loc.tortoiseAlpha,
     beta |-> loc.tortoiseBeta]

Hare(loc) ==
    [point |-> loc.harePoint, alpha |-> loc.hareAlpha, beta |-> loc.hareBeta]

\* The hare's second step taken from the hare's old position again
StepWalkersHareRestarts(loc, Q) ==
    Let(IterationStep(loc.tortoisePoint, loc.tortoiseAlpha, loc.tortoiseBeta, Q),
        LAMBDA tortoiseResult :
    Let(IterationStep(loc.harePoint, loc.hareAlpha, loc.hareBeta, Q),
        LAMBDA hareResult1 :
    Let(IterationStep(loc.harePoint, loc.hareAlpha, loc.hareBeta, Q),
        LAMBDA hareResult2 :
        [threw   |-> tortoiseResult.threw \/ hareResult1.threw \/ hareResult2.threw,
         hareMid |-> [point |-> hareResult1.point, alpha |-> hareResult1.alpha,
                      beta |-> hareResult1.beta],
         stepped |-> [tortoisePoint |-> tortoiseResult.point,
                      tortoiseAlpha |-> tortoiseResult.alpha,
                      tortoiseBeta  |-> tortoiseResult.beta,
                      harePoint     |-> hareResult2.point,
                      hareAlpha     |-> hareResult2.alpha,
                      hareBeta      |-> hareResult2.beta]])))

\* Lines 353-368: the tortoise moves one step, the hare two.
StepWalkers(loc, Q) ==
    Let(IterationStep(loc.tortoisePoint, loc.tortoiseAlpha, loc.tortoiseBeta, Q),
        LAMBDA tortoiseResult :
    Let(IterationStep(loc.harePoint, loc.hareAlpha, loc.hareBeta, Q),
        LAMBDA hareResult1 :
    Let(IterationStep(hareResult1.point, hareResult1.alpha, hareResult1.beta, Q),
        LAMBDA hareResult2 :
        [threw   |-> tortoiseResult.threw \/ hareResult1.threw \/ hareResult2.threw,
         hareMid |-> [point |-> hareResult1.point, alpha |-> hareResult1.alpha,
                      beta |-> hareResult1.beta],
         stepped |-> [tortoisePoint |-> tortoiseResult.point,
                      tortoiseAlpha |-> tortoiseResult.alpha,
                      tortoiseBeta  |-> tortoiseResult.beta,
                      harePoint     |-> hareResult2.point,
                      hareAlpha     |-> hareResult2.alpha,
                      hareBeta      |-> hareResult2.beta]])))

\* Lines 393-399: restart after a collision the solver could not use.
\* hareBeta is not assigned.
Reseed(loc, Q) ==
    LET newStartAlpha == JSRem(loc.tortoiseAlpha + 1, n)
        startPoint ==
            PointAdd(Multiply(G, newStartAlpha), Multiply(Q, loc.tortoiseBeta))
    IN  IF MultiplyThrows(newStartAlpha) \/ MultiplyThrows(loc.tortoiseBeta)
        THEN [threw |-> TRUE, loc |-> loc]
        ELSE [threw |-> FALSE,
              loc |-> [loc EXCEPT !.tortoisePoint = startPoint,
                                  !.harePoint = startPoint,
                                  !.tortoiseAlpha = newStartAlpha,
                                  !.hareAlpha = newStartAlpha]]

\* What a tick hands back to the loop: how it ended ("continue", "reseed",
\* "return" or "throw"), the locals, the key, and the tick's history entry.
Outcome(kind, before, loc, k, moved, solverCalled) ==
    [kind |-> kind, loc |-> loc, k |-> k,
     entry |-> [kind |-> kind, before |-> before, hareMid |-> moved.hareMid,
                stepped |-> moved.stepped, solverCalled |-> solverCalled,
                k |-> k, end |-> loc]]

\* The loop body comparing the points only in the last pass of a batch
TickCheckAtBatchEnd(state, iterations, i, loc) ==
    Let(StepWalkers(loc, state.Q), LAMBDA moved :
        LET stepped == moved.stepped
            k == SolveForK(stepped.tortoiseAlpha, stepped.tortoiseBeta,
                           stepped.hareAlpha, stepped.hareBeta, state.Q)
            restart == Reseed(stepped, state.Q)
        IN  IF moved.threw
            THEN Outcome("throw", loc, loc, Null, moved, FALSE)
            ELSE IF ~(i + 1 = iterations
                       /\ PointsEqual(stepped.tortoisePoint, stepped.harePoint))
            THEN Outcome("continue", loc, stepped, Null, moved, FALSE)
            ELSE IF k # Null
            THEN Outcome("return", loc, stepped, k, moved, TRUE)
            ELSE IF restart.threw
            THEN Outcome("throw", loc, stepped, Null, moved, TRUE)
            ELSE Outcome("reseed", loc, restart.loc, Null, moved, TRUE))

\* One pass of the loop body (lines 352-401), i being the loop counter.
Tick(state, iterations, i, loc) ==
    Let(StepWalkers(loc, state.Q), LAMBDA moved :
        LET stepped == moved.stepped
            k == SolveForK(stepped.tortoiseAlpha, stepped.tortoiseBeta,
                           stepped.hareAlpha, stepped.hareBeta, state.Q)
            restart == Reseed(stepped, state.Q)
        IN  IF moved.threw
            THEN Outcome("throw", loc, loc, Null, moved, FALSE)
            ELSE IF ~PointsEqual(stepped.tortoisePoint, stepped.harePoint)
            THEN Outcome("continue", loc, stepped, Null, moved, FALSE)
            ELSE IF k # Null
            THEN Outcome("return", loc, stepped, k, moved, TRUE)
            ELSE IF restart.threw
            THEN Outcome("throw", loc, stepped, Null, moved, TRUE)
            ELSE Outcome("reseed", loc, restart.loc, Null, moved, TRUE))

\* A return statement that stores the tortoise's point as the target
ReturnedRetargeted(state, iteration, loc) ==
    [publicKey     |-> state.publicKey,
     iteration     |-> iteration,
     tortoisePoint |-> loc.tortoisePoint,
     tortoiseAlpha |-> loc.tortoiseAlpha,
     tortoiseBeta  |-> loc.tortoiseBeta,
     harePoint     |-> loc.harePoint,
     hareAlpha     |-> loc.hareAlpha,
     hareBeta      |-> loc.hareBeta,
     Q             |-> loc.tortoisePoint]

\* The state a return statement builds: {...state, iteration, walkers}.
Returned(state, iteration, loc) ==
    [publicKey     |-> state.publicKey,
     iteration     |-> iteration,
     tortoisePoint |-> loc.tortoisePoint,
     tortoiseAlpha |-> loc.tortoiseAlpha,
     tortoiseBeta  |-> loc.tortoiseBeta,
     harePoint     |-> loc.harePoint,
     hareAlpha     |-> loc.hareAlpha,
     hareBeta      |-> loc.hareBeta,
     Q             |-> state.Q]

\* The loop reporting the whole requested batch when it returns a key
RECURSIVE ForLoopFullBatch(_, _, _, _, _)
ForLoopFullBatch(state, iterations, i, loc, lg) ==
    IF i < iterations
    THEN Let(Tick(state, iterations, i, loc), LAMBDA t :
             IF t.kind = "throw"
             THEN [threw |-> TRUE, state |-> state, collision |-> FALSE,
                   privateKey |-> Null, log |-> Append(lg, t.entry),
                   input |-> state]
             ELSE IF t.kind = "return"
             THEN [threw |-> FALSE,
                   state |-> Returned(state, state.iteration + iterations, t.loc),
                   collision |-> TRUE, privateKey |-> t.k,
                   log |-> Append(lg, t.entry), input |-> state]
             ELSE ForLoopFullBatch(state, iterations, i + 1, t.loc,
                                   Append(lg, t.entry)))
    ELSE [threw |-> FALSE,
          state |-> Returned(state, state.iteration + iterations, loc),
          collision |-> FALSE, privateKey |-> Null, log |-> lg,
          input |-> state]

RECURSIVE ForLoop(_, _, _, _, _)
ForLoop(state, iterations, i, loc, lg) ==
    IF i < iterations
    THEN Let(Tick(state, iterations, i, loc), LAMBDA t :
             IF t.kind = "throw"
             THEN [threw |-> TRUE, state |-> state, collision |-> FALSE,
                   privateKey |-> Null, log |-> Append(lg, t.entry),
                   input |-> state]
             ELSE IF t.kind = "return"
             THEN [threw |-> FALSE,
                   state |-> Returned(state, state.iteration + i + 1, t.loc),
                   collision |-> TRUE, privateKey |-> t.k,
                   log |-> Append(lg, t.entry), input |-> state]
             ELSE ForLoop(state, iterations, i + 1, t.loc, Append(lg, t.entry)))
    ELSE [threw |-> FALSE,
          state |-> Returned(state, state.iteration + iterations, loc),
          collision |-> FALSE, privateKey |-> Null, log |-> lg,
          input |-> state]

\* performIterations going on from the state its previous call returned
\* instead of the state it is given
PerformIterationsFromKept(state, iterations) ==
    ForLoop(st, iterations, 0, Locals(st), <<>>)

PerformIterations(state, iterations) ==
    ForLoop(state, iterations, 0, Locals(state), <<>>)

(***************************************************************************)
(* The walk: initializeState, then any sequence of performIterations       *)
(* calls.  A call that throws leaves the caller's state as it was.         *)
(***************************************************************************)
NoResult == [batch |-> 0, threw |-> FALSE, collision |-> FALSE, privateKey |-> Null]

WalkStart(state) ==
    [tortoiseStart |-> Tortoise(state), hareStart |-> Hare(state), ticks |-> 0]

RECURSIVE GhostAfter(_, _)
GhostAfter(g, lg) ==
    IF lg = <<>>
    THEN g
    ELSE GhostAfter(IF Head(lg).kind = "reseed"
                    THEN WalkStart(Head(lg).end)
                    ELSE [g EXCEPT !.ticks = @ + 1],
                    Tail(lg))

Idle == arg = <<>> /\ ret = <<>>

\* localStorage.getItem of a key that was never set
NoItem == <<>>

\* The hook is not mounted: the library is used on its own.
NoHook == <<>>

Init ==
    /\ storage = NoItem
    /\ n \in Orders
    /\ enc \in [0..(n - 1) -> Words]
    /\ \E k \in 1..(n - 1) : st = InitializeState(k)
    /\ res = NoResult
    /\ log = <<>>
    /\ ghost = WalkStart(st)
    /\ Idle
    /\ hook = NoHook

PerformIterationsCall(b) ==
    /\ st.iteration + b <= MaxIter
    /\ \E r \in {PerformIterations(st, b)} :
           /\ st' = r.state
           /\ res' = [batch |-> b, threw |-> r.threw, collision |-> r.collision,
                      privateKey |-> r.privateKey]
           /\ log' = r.log
           /\ ghost' = IF r.threw THEN ghost ELSE GhostAfter(ghost, r.log)
    /\ UNCHANGED <<storage, hook, n, enc, arg, ret>>

Next == \E b \in 1..MaxBatch : PerformIterationsCall(b)

Spec == Init /\ [][Next]_vars

(***************************************************************************)
(* solveForK applied directly to coefficients drawn from 0..n-1.           *)
(***************************************************************************)
NotCalled == [done |-> FALSE]

NoWalk(Q) ==
    /\ st = InitializeState(Q)
    /\ res = NoResult
    /\ log = <<>>
    /\ ghost = WalkStart(st)
    /\ hook = NoHook

SolverInit ==
    /\ storage = NoItem
    /\ n \in Orders
    /\ enc = [p \in 0..(n - 1) |-> <<0, 0, 0, 3>>]
    /\ arg \in [tortoiseAlpha : 0..(n - 1), tortoiseBeta : 0..(n - 1),
                hareAlpha : 0..(n - 1), hareBeta : 0..(n - 1), Q : 1..(n - 1)]
    /\ ret = NotCalled
    /\ NoWalk(arg.Q)

SolveForKCall ==
    /\ ~ret.done
    /\ ret' = [done |-> TRUE,
               value |-> SolveForK(arg.tortoiseAlpha, arg.tortoiseBeta,
                                   arg.hareAlpha, arg.hareBeta, arg.Q)]
    /\ UNCHANGED <<storage, hook, n, enc, st, res, log, ghost, arg>>

SolverNext == SolveForKCall

SolverSpec == SolverInit /\ [][SolverNext]_vars

(***************************************************************************)
(* solveForK applied to any four bigints near 0..n-1 (a coefficient of a   *)
(* restored state need not be reduced), in groups of prime and of          *)
(* composite order.                                                        *)
(***************************************************************************)
AnySolverInit ==
    /\ storage = NoItem
    /\ n \in AnyOrders
    /\ enc = [p \in 0..(n - 1) |-> <<0, 0, 0, 3>>]
    /\ arg \in [tortoiseAlpha : (-Slack)..(n - 1 + Slack),
                tortoiseBeta  : (-Slack)..(n - 1 + Slack),
                hareAlpha     : (-Slack)..(n - 1 + Slack),
                hareBeta      : (-Slack)..(n - 1 + Slack),
                Q : 1..(n - 1)]
    /\ ret = NotCalled
    /\ NoWalk(arg.Q)

AnySolverNext == SolveForKCall

AnySolverSpec == AnySolverInit /\ [][AnySolverNext]_vars

(***************************************************************************)
(* partitionFunction applied directly: the point's encoding starts with    *)
(* four bytes drawn from ByteSamples.                                      *)
(***************************************************************************)
PartitionInit ==
    /\ storage = NoItem
    /\ n \in StepOrders
    /\ arg \in [point : 0..(n - 1)]
    /\ \E w \in [1..4 -> ByteSamples] :
           enc = [p \in 0..(n - 1) |-> IF p = arg.point THEN w ELSE <<0, 0, 0, 3>>]
    /\ ret = NotCalled
    /\ NoWalk(G)

PartitionFunctionCall ==
    /\ ~ret.done
    /\ ret' = [done |-> TRUE, value |-> PartitionFunction(arg.point)]
    /\ UNCHANGED <<storage, hook, n, enc, st, res, log, ghost, arg>>

PartitionNext == PartitionFunctionCall

PartitionSpec == PartitionInit /\ [][PartitionNext]_vars

(***************************************************************************)
(* iterationStep applied directly, MaxSteps times in a row, starting from  *)
(* any tracked point with point = alpha*G + beta*Q.                        *)
(***************************************************************************)
StepInit ==
    /\ storage = NoItem
    /\ n \in StepOrders
    /\ enc \in [0..(n - 1) -> Words]
    /\ \E alpha \in 0..(n - 1), beta \in 0..(n - 1), Q \in 1..(n - 1) :
           arg = [point |-> (alpha * G + beta * Q) % n,
                  alpha |-> alpha, beta |-> beta, Q |-> Q]
    /\ ret = [done |-> FALSE, count |-> 0]
    /\ NoWalk(arg.Q)

IterationStepCall ==
    /\ ret.count < MaxSteps
    /\ \E r \in {IterationStep(arg.point, arg.alpha, arg.beta, arg.Q)} :
           /\ ret' = [done |-> TRUE, count |-> ret.count + 1, in |-> arg, out |-> r]
           /\ arg' = IF r.threw
                     THEN arg
                     ELSE [point |-> r.point, alpha |-> r.alpha, beta |-> r.beta,
                           Q |-> arg.Q]
    /\ UNCHANGED <<storage, hook, n, enc, st, res, log, ghost>>

StepNext == IterationStepCall

StepSpec == StepInit /\ [][StepNext]_vars

(***************************************************************************)
(* performIterations invoked twice on the same state with the same batch   *)
(* size: the caller adopts the state the first invocation returns and      *)
(* keeps the state it passed, then invokes the function on that state      *)
(* again.                                                                  *)
(***************************************************************************)
TwiceInit ==
    /\ storage = NoItem
    /\ n \in StepOrders
    /\ enc \in [0..(n - 1) -> Words]
    /\ \E k \in 1..(n - 1) : st = InitializeState(k)
    /\ res = NoResult
    /\ log = <<>>
    /\ ghost = WalkStart(st)
    /\ arg = <<>>
    /\ ret = [calls |-> 0]
    /\ hook = NoHook

PerformIterationsFirst(b) ==
    /\ ret.calls \in {0, 2}
    /\ st.iteration + b <= MaxIter
    /\ \E r \in {PerformIterations(st, b)} :
           /\ arg' = [state |-> r.input, before |-> st, iterations |-> b]
           /\ ret' = [calls |-> 1, first |-> r]
           /\ st' = r.state
    /\ UNCHANGED <<storage, hook, n, enc, res, log, ghost>>

PerformIterationsAgain ==
    /\ ret.calls = 1
    /\ \E r \in {PerformIterations(arg.state, arg.iterations)} :
           ret' = [calls |-> 2, first |-> ret.first, second |-> r]
    /\ UNCHANGED <<storage, hook, n, enc, st, res, log, ghost, arg>>

TwiceNext ==
    \/ \E b \in 1..MaxBatch : PerformIterationsFirst(b)
    \/ PerformIterationsAgain

TwiceSpec == TwiceInit /\ [][TwiceNext]_vars

(***************************************************************************)
(* The toy scenario: a group of order 23, target Q = 2*G, batches of one   *)
(* iteration.  The caller stops once a key is reported; a call that throws *)
(* ends the run too (no further batch is scheduled).                       *)
(***************************************************************************)
ToyInit ==
    /\ storage = NoItem
    /\ n \in ToyOrders
    /\ \E m \in ToyModuli : \E r \in 0..(m - 1) :
           enc = [p \in 0..(n - 1) |->
                     IF p % m = r THEN <<255, 255, 255, 242>> ELSE <<0, 0, 0, 3>>]
    /\ \E k \in ToyKeys : st = InitializeState(k)
    /\ res = NoResult
    /\ log = <<>>
    /\ ghost = WalkStart(st)
    /\ Idle
    /\ hook = NoHook

ToyTick ==
    /\ ~res.collision
    /\ ~res.threw
    /\ st.iteration < ToyMaxIter
    /\ \E r \in {PerformIterations(st, 1)} :
           /\ st' = r.state
           /\ res' = [batch |-> 1, threw |-> r.threw, collision |-> r.collision,
                      privateKey |-> r.privateKey]
           /\ log' = r.log
           /\ ghost' = IF r.threw THEN ghost ELSE GhostAfter(ghost, r.log)
    /\ UNCHANGED <<storage, hook, n, enc, arg, ret>>

ToyNext == ToyTick

ToySpec == ToyInit /\ [][ToyNext]_vars /\ WF_vars(ToyTick)

(***************************************************************************)
(* The scheduler: the usePollardRho hook (hooks/usePollardRho.ts).         *)
(*                                                                         *)
(* hook.ui is the React state of the last render, hook.next the state with *)
(* the queued updates applied (every setter is called with a plain value). *)
(* A render commits hook.next, runs the hook body (which copies the state  *)
(* into the refs) and, when a dependency of the effect changed, the        *)
(* effect's cleanup and the effect; a render with its effects is one step. *)
(* hook.frames are the animation frame requests the host holds; the host   *)
(* runs executeChunk for any of them at any time.  start() is two steps:   *)
(* the call, and the continuation after initializeStateAsync, which the    *)
(* host runs from a timer.  st is algorithmStateRef.current.               *)
(* hook.last, hook.solved, hook.pausedAt, hook.orphaned, hook.foundAt and  *)
(* hook.batch (the batch size the last performIterations call was given)   *)
(* are history.                                                            *)
(***************************************************************************)
SPEED_CONFIGS == [slow |-> 1, medium |-> 100, fast |-> 500, ultra |-> 1000]

\* useState initial values (lines 80-87)
InitialUi ==
    [isRunning |-> FALSE, isPaused |-> FALSE, speedLevel |-> "medium",
     hasFoundKey |-> FALSE, privateKey |-> Null, uiIteration |-> 0,
     uiSpeed |-> 0]

\* What the page shows: Running, Paused, Solved or Idle.
Status(ui) ==
    IF ui.isRunning THEN (IF ui.isPaused THEN "Paused" ELSE "Running")
    ELSE IF ui.hasFoundKey THEN "Solved"
    ELSE "Idle"

\* History entry: the operation made last and the state it was made in.
Last(op) ==
    [op |-> op, status |-> Status(hook.ui), ticking |-> hook.frames # {}]

\* cancelAnimationFrame(requestRef.current)
CancelAnimationFrame(frames, id) == frames \ {id}

\* The handle requestAnimationFrame returns: one no pending request has.
FreshFrame(frames) == CHOOSE id \in 1..MaxFrames : id \notin frames

HookInit ==
    /\ storage = NoItem
    /\ n \in HookOrders
    /\ enc = [p \in 0..(n - 1) |->
                 IF p = n - 1 THEN <<255, 255, 255, 242>> ELSE <<0, 0, 0, 3>>]
    /\ st = Null
    /\ res = NoResult
    /\ log = <<>>
    /\ ghost = <<>>
    /\ Idle
    /\ hook = [ui |-> InitialUi, next |-> InitialUi,
               isRunningRef |-> FALSE, isPausedRef |-> FALSE,
               opsPerFrameRef |-> SPEED_CONFIGS["medium"],
               speedRef |-> 0, requestRef |-> 0,
               frames |-> {}, starting |-> <<>>,
               last |-> [op |-> "mount", status |-> "Idle", ticking |-> FALSE],
               solved |-> FALSE, pausedAt |-> -1, orphaned |-> FALSE,
               foundAt |-> -1, batch |-> 0]

\* start(publicKey) up to its await (line 136)
StartCall(publicKey) ==
    /\ Len(hook.starting) < MaxInFlight
    /\ hook' = [hook EXCEPT !.starting = Append(@, publicKey),
                            !.last = Last("start"),
                            !.pausedAt = -1,
                            !.orphaned = FALSE,
                            !.foundAt = -1]
    /\ UNCHANGED <<storage, n, enc, st, res, log, ghost, arg, ret>>

\* start whose state setters run although the initialization threw
StartCompleteRunsAnyway ==
    /\ hook.starting # <<>>
    /\ LET publicKey == Head(hook.starting)
           Q == ParsePublicKey(publicKey)
       IN  IF Q.threw
           THEN /\ hook' = [hook EXCEPT !.starting = Tail(@),
                                        !.next.isRunning = TRUE,
                                        !.last = Last("startFailed"),
                                        !.pausedAt = -1]
                /\ st' = st
           ELSE /\ st' = InitializeStateText(publicKey)
                /\ hook' = [hook EXCEPT !.starting = Tail(@),
                                        !.next.isRunning = TRUE,
                                        !.next.isPaused = FALSE,
                                        !.next.hasFoundKey = FALSE,
                                        !.next.privateKey = Null,
                                        !.next.uiIteration = 0,
                                        !.next.uiSpeed = 0,
                                        !.speedRef = 0,
                                        !.last = Last("started"),
                                        !.pausedAt = -1,
                                        !.foundAt = -1]
    /\ UNCHANGED <<storage, n, enc, res, log, ghost, arg, ret>>

\* start after the await: lines 137-153, or the catch branch 162-170
StartComplete ==
    /\ hook.starting # <<>>
    /\ LET publicKey == Head(hook.starting)
           Q == ParsePublicKey(publicKey)
       IN  IF Q.threw
           THEN /\ hook' = [hook EXCEPT !.starting = Tail(@),
                                        !.next.isRunning = FALSE,
                                        !.last = Last("startFailed"),
                                        !.pausedAt = -1]
                /\ st' = st
           ELSE /\ st' = InitializeStateText(publicKey)
                /\ hook' = [hook EXCEPT !.starting = Tail(@),
                                        !.next.isRunning = TRUE,
                                        !.next.isPaused = FALSE,
                                        !.next.hasFoundKey = FALSE,
                                        !.next.privateKey = Null,
                                        !.next.uiIteration = 0,
                                        !.next.uiSpeed = 0,
                                        !.speedRef = 0,
                                        !.last = Last("started"),
                                        !.pausedAt = -1,
                                        !.foundAt = -1]
    /\ UNCHANGED <<storage, n, enc, res, log, ghost, arg, ret>>

\* pause that leaves the requested frame with the host
PauseWithoutCancel ==
    /\ hook' = [hook EXCEPT !.next.isPaused = TRUE,
                            !.last = Last("pause"),
                            !.pausedAt = IF hook.ui.isRunning /\ st # Null
                                         THEN st.iteration ELSE @]
    /\ UNCHANGED <<storage, n, enc, st, res, log, ghost, arg, ret>>

\* pause (lines 177-189)
Pause ==
    /\ hook' = [hook EXCEPT !.next.isPaused = TRUE,
                            !.frames = CancelAnimationFrame(@, hook.requestRef),
                            !.last = Last("pause"),
                            !.pausedAt = IF hook.ui.isRunning /\ st # Null
                                         THEN st.iteration ELSE @]
    /\ UNCHANGED <<storage, n, enc, st, res, log, ghost, arg, ret>>

\* resume starting the walk over from its initial state
ResumeFromScratch ==
    /\ st' = IF st = Null THEN st ELSE InitializeState(st.Q)
    /\ hook' = [hook EXCEPT !.next.isPaused = FALSE,
                            !.last = Last("resume"),
                            !.pausedAt = -1]
    /\ UNCHANGED <<storage, n, enc, res, log, ghost, arg, ret>>

\* resume (lines 194-204)
Resume ==
    /\ hook' = [hook EXCEPT !.next.isPaused = FALSE,
                            !.last = Last("resume"),
                            !.pausedAt = -1]
    /\ UNCHANGED <<storage, n, enc, st, res, log, ghost, arg, ret>>

\* reset that keeps the walk state in algorithmStateRef
ResetKeepingState ==
    /\ st' = st
    /\ hook' = [hook EXCEPT !.next.isRunning = FALSE,
                            !.next.isPaused = FALSE,
                            !.next.hasFoundKey = FALSE,
                            !.next.privateKey = Null,
                            !.next.uiIteration = 0,
                            !.next.uiSpeed = 0,
                            !.speedRef = 0,
                            !.frames = CancelAnimationFrame(@, hook.requestRef),
                            !.last = Last("reset"),
                            !.solved = FALSE,
                            !.pausedAt = -1,
                            !.orphaned = hook.starting # <<>>,
                            !.foundAt = -1]
    /\ UNCHANGED <<storage, n, enc, res, log, ghost, arg, ret>>

\* reset (lines 209-223)
Reset ==
    /\ st' = Null
    /\ hook' = [hook EXCEPT !.next.isRunning = FALSE,
                            !.next.isPaused = FALSE,
                            !.next.hasFoundKey = FALSE,
                            !.next.privateKey = Null,
                            !.next.uiIteration = 0,
                            !.next.uiSpeed = 0,
                            !.speedRef = 0,
                            !.frames = CancelAnimationFrame(@, hook.requestRef),
                            !.last = Last("reset"),
                            !.solved = FALSE,
                            !.pausedAt = -1,
                            !.orphaned = hook.starting # <<>>,
                            !.foundAt = -1]
    /\ UNCHANGED <<storage, n, enc, res, log, ghost, arg, ret>>

\* setSpeedLevel that leaves the new batch size to the next render
SetSpeedLevelStateOnly(level) ==
    /\ hook' = [hook EXCEPT !.next.speedLevel = level,
                            !.last = Last("setSpeedLevel")]
    /\ UNCHANGED <<storage, n, enc, st, res, log, ghost, arg, ret>>

\* setSpeedLevel (lines 228-231)
SetSpeedLevel(level) ==
    /\ hook' = [hook EXCEPT !.next.speedLevel = level,
                            !.opsPerFrameRef = SPEED_CONFIGS[level],
                            !.last = Last("setSpeedLevel")]
    /\ UNCHANGED <<storage, n, enc, st, res, log, ghost, arg, ret>>

\* restoreFromState (lines 247-253)
RestoreFromState(data) ==
    /\ st' = data.state
    /\ hook' = [hook EXCEPT !.next.uiIteration = data.state.iteration,
                            !.next.uiSpeed = data.speed,
                            !.speedRef = data.speed,
                            !.last = Last("restoreFromState"),
                            !.pausedAt = -1,
                            !.orphaned = FALSE,
                            !.foundAt = -1]
    /\ UNCHANGED <<storage, n, enc, res, log, ghost, arg, ret>>

\* The states a share link may carry: a walk one iteration old.
SharedData ==
    { [state |-> PerformIterations(InitializeState(Q), 1).state, speed |-> v] :
          Q \in HookKeys, v \in Throughputs }

\* the effect requesting a frame whenever a walk state is held
SchedulesTickWheneverHeld(ui, state) == state # Null

\* The effect's condition (line 356)
SchedulesTick(ui, state) == ui.isRunning /\ ~ui.isPaused /\ state # Null

\* The effect's dependencies (line 366); executeChunk changes with speedLevel
EffectDeps(ui) == <<ui.isRunning, ui.isPaused, ui.speedLevel>>

\* A render whose effect has no cleanup: the frame requested before stays
RenderWithoutCleanup ==
    /\ hook.next # hook.ui
    /\ LET ui == hook.next
           cleaned == hook.frames
           rerun == EffectDeps(ui) # EffectDeps(hook.ui)
           request == rerun /\ SchedulesTick(ui, st)
       IN  /\ request => cleaned # 1..MaxFrames
           /\ hook' = [hook EXCEPT
                  !.ui = ui,
                  !.opsPerFrameRef = SPEED_CONFIGS[ui.speedLevel],
                  !.isRunningRef = ui.isRunning,
                  !.isPausedRef = ui.isPaused,
                  !.frames = IF request THEN cleaned \cup {FreshFrame(cleaned)}
                             ELSE IF rerun THEN cleaned
                             ELSE @,
                  !.requestRef = IF request THEN FreshFrame(cleaned) ELSE @,
                  !.last = Last("render"),
                  !.solved = @ \/ Status(ui) = "Solved"]
    /\ UNCHANGED <<storage, n, enc, st, res, log, ghost, arg, ret>>

\* A render: the hook body (lines 109-111), then the effect's cleanup and
\* the effect (lines 354-366) if a dependency changed.
Render ==
    /\ hook.next # hook.ui
    /\ LET ui == hook.next
           cleaned == CancelAnimationFrame(hook.frames, hook.requestRef)
           rerun == EffectDeps(ui) # EffectDeps(hook.ui)
           request == rerun /\ SchedulesTick(ui, st)
       IN  /\ request => cleaned # 1..MaxFrames
           /\ hook' = [hook EXCEPT
                  !.ui = ui,
                  !.opsPerFrameRef = SPEED_CONFIGS[ui.speedLevel],
                  !.isRunningRef = ui.isRunning,
                  !.isPausedRef = ui.isPaused,
                  !.frames = IF request THEN cleaned \cup {FreshFrame(cleaned)}
                             ELSE IF rerun THEN cleaned
                             ELSE @,
                  !.requestRef = IF request THEN FreshFrame(cleaned) ELSE @,
                  !.last = Last("render"),
                  !.solved = @ \/ Status(ui) = "Solved"]
    /\ UNCHANGED <<storage, n, enc, st, res, log, ghost, arg, ret>>

\* executeChunk requesting the next frame also after it has reported a key
ExecuteChunkTicksOn(id, measured, avgSpeed, uiDue) ==
    /\ id \in hook.frames
    /\ st # Null => st.iteration < HookMaxIter
    /\ LET pending == hook.frames \ {id}
       IN  IF st = Null \/ hook.isPausedRef
           THEN /\ hook' = [hook EXCEPT !.frames = pending,
                                        !.last = Last("skipped")]
                /\ st' = st
           ELSE \E result \in {PerformIterations(st, hook.opsPerFrameRef)} :
                LET newIteration == result.state.iteration
                    speed == IF measured THEN avgSpeed ELSE hook.speedRef
                    again == hook.isRunningRef /\ ~hook.isPausedRef
                IN  IF result.threw
                    THEN /\ hook' = [hook EXCEPT !.frames = pending,
                                                 !.last = Last("threw"),
                                                 !.batch = hook.opsPerFrameRef]
                         /\ st' = st
                    ELSE IF result.collision /\ result.privateKey # Null
                    THEN /\ st' = result.state
                         /\ again => pending # 1..MaxFrames
                         /\ hook' = [hook EXCEPT
                                !.frames = IF again
                                           THEN pending \cup {FreshFrame(pending)}
                                           ELSE pending,
                                !.requestRef = IF again THEN FreshFrame(pending)
                                               ELSE @,
                                !.speedRef = speed,
                                !.next.hasFoundKey = TRUE,
                                !.next.privateKey = result.privateKey,
                                !.next.isRunning = FALSE,
                                !.next.uiIteration = newIteration,
                                !.next.uiSpeed = speed,
                                !.last = Last("batch"),
                                !.foundAt = newIteration,
                                !.batch = hook.opsPerFrameRef]
                    ELSE /\ st' = result.state
                         /\ again => pending # 1..MaxFrames
                         /\ hook' = [hook EXCEPT
                                !.frames = IF again
                                           THEN pending \cup {FreshFrame(pending)}
                                           ELSE pending,
                                !.requestRef = IF again THEN FreshFrame(pending)
                                               ELSE @,
                                !.speedRef = speed,
                                !.next.uiIteration = IF uiDue THEN newIteration
                                                     ELSE @,
                                !.next.uiSpeed = IF uiDue THEN speed ELSE @,
                                !.last = Last("batch"),
                                !.batch = hook.opsPerFrameRef]
    /\ UNCHANGED <<storage, n, enc, res, log, ghost, arg, ret>>

\* executeChunk (lines 258-351), run by the host for the request id.
\* measured: five seconds have passed since the throughput was computed;
\* uiDue: 500 ms have passed since the last UI update.
ExecuteChunk(id, measured, avgSpeed, uiDue) ==
    /\ id \in hook.frames
    /\ st # Null => st.iteration < HookMaxIter
    /\ LET pending == hook.frames \ {id}
       IN  IF st = Null \/ hook.isPausedRef
           THEN /\ hook' = [hook EXCEPT !.frames = pending,
                                        !.last = Last("skipped")]
                /\ st' = st
           ELSE \E result \in {PerformIterations(st, hook.opsPerFrameRef)} :
                LET newIteration == result.state.iteration
                    speed == IF measured THEN avgSpeed ELSE hook.speedRef
                    again == hook.isRunningRef /\ ~hook.isPausedRef
                IN  IF result.threw
                    THEN /\ hook' = [hook EXCEPT !.frames = pending,
                                                 !.last = Last("threw"),
                                                 !.batch = hook.opsPerFrameRef]
                         /\ st' = st
                    ELSE IF result.collision /\ result.privateKey # Null
                    THEN /\ st' = result.state
                         /\ hook' = [hook EXCEPT
                                !.frames = pending,
                                !.speedRef = speed,
                                !.next.hasFoundKey = TRUE,
                                !.next.privateKey = result.privateKey,
                                !.next.isRunning = FALSE,
                                !.next.uiIteration = newIteration,
                                !.next.uiSpeed = speed,
                                !.last = Last("batch"),
                                !.foundAt = newIteration,
                                !.batch = hook.opsPerFrameRef]
                    ELSE /\ st' = result.state
                         /\ again => pending # 1..MaxFrames
                         /\ hook' = [hook EXCEPT
                                !.frames = IF again
                                           THEN pending \cup {FreshFrame(pending)}
                                           ELSE pending,
                                !.requestRef = IF again THEN FreshFrame(pending)
                                               ELSE @,
                                !.speedRef = speed,
                                !.next.uiIteration = IF uiDue THEN newIteration
                                                     ELSE @,
                                !.next.uiSpeed = IF uiDue THEN speed ELSE @,
                                !.last = Last("batch"),
                                !.batch = hook.opsPerFrameRef]
    /\ UNCHANGED <<storage, n, enc, res, log, ghost, arg, ret>>

HookNext ==
    \/ \E publicKey \in {PublicKeyOf(Q) : Q \in HookKeys} \cup {BadKey} :
           StartCall(publicKey)
    \/ StartComplete
    \/ Pause
    \/ Resume
    \/ Reset
    \/ \E level \in SpeedLevels : SetSpeedLevel(level)
    \/ \E data \in SharedData : RestoreFromState(data)
    \/ Render
    \/ \E id \in 1..MaxFrames, measured \in BOOLEAN, avgSpeed \in Throughputs,
          uiDue \in BOOLEAN : ExecuteChunk(id, measured, avgSpeed, uiDue)

HookSpec == HookInit /\ [][HookNext]_vars

(***************************************************************************)
(* The state encodings: stateToSerializable / stateFromSerializable,       *)
(* stateToCompact / stateFromCompact, and saveState / loadState over       *)
(* localStorage.  A walk is begun from a public key in one of the          *)
(* spellings parsePublicKey accepts, advanced a few iterations, encoded    *)
(* and decoded; stateFromCompact is also given damaged texts.              *)
(***************************************************************************)

\* Spellings of the key of point Q that parsePublicKey accepts
KeySpellings(Q) ==
    { <<"0", "x">> \o ToHex(Q),
      <<"0", "X">> \o ToHex(Q),
      ToHex(Q),
      <<"0", "x">> \o ToHex(Q) \o <<" ">>,
      <<" ">> \o ToHex(Q) }

\* The field names of an AlgorithmState
AlgorithmStateFields ==
    {"publicKey", "iteration", "tortoisePoint", "tortoiseAlpha", "tortoiseBeta",
     "harePoint", "hareAlpha", "hareBeta", "Q"}

\* stateToSerializable keeping only the first 32 digits of a point
StateToSerializableHalved(state) ==
    [publicKey |-> state.publicKey,
     iteration |-> state.iteration,
     tortoise  |-> [pointX |-> Slice2(ToHex(state.tortoisePoint), 0, 32),
                    pointY |-> Slice2(ToHex(state.tortoisePoint), 64, 128),
                    alpha  |-> ToString16(state.tortoiseAlpha),
                    beta   |-> ToString16(state.tortoiseBeta)],
     hare      |-> [pointX |-> Slice2(ToHex(state.harePoint), 0, 32),
                    pointY |-> Slice2(ToHex(state.harePoint), 64, 128),
                    alpha  |-> ToString16(state.hareAlpha),
                    beta   |-> ToString16(state.hareBeta)]]

\* stateToSerializable
StateToSerializable(state) ==
    [publicKey |-> state.publicKey,
     iteration |-> state.iteration,
     tortoise  |-> [pointX |-> Slice2(ToHex(state.tortoisePoint), 0, 64),
                    pointY |-> Slice2(ToHex(state.tortoisePoint), 64, 128),
                    alpha  |-> ToString16(state.tortoiseAlpha),
                    beta   |-> ToString16(state.tortoiseBeta)],
     hare      |-> [pointX |-> Slice2(ToHex(state.harePoint), 0, 64),
                    pointY |-> Slice2(ToHex(state.harePoint), 64, 128),
                    alpha  |-> ToString16(state.hareAlpha),
                    beta   |-> ToString16(state.hareBeta)]]

\* stateFromSerializable: null if anything in the try block throws
StateFromSerializable(serializable) ==
    LET Q == ParsePublicKey(serializable.publicKey)
        tortoisePoint == FromHex(serializable.tortoise.pointX
                                 \o serializable.tortoise.pointY)
        tortoiseAlpha == BigIntOfHex(serializable.tortoise.alpha)
        tortoiseBeta == BigIntOfHex(serializable.tortoise.beta)
        harePoint == FromHex(serializable.hare.pointX \o serializable.hare.pointY)
        hareAlpha == BigIntOfHex(serializable.hare.alpha)
        hareBeta == BigIntOfHex(serializable.hare.beta)
    IN  IF \/ Q.threw
           \/ tortoisePoint.threw \/ tortoiseAlpha.threw \/ tortoiseBeta.threw
           \/ harePoint.threw \/ hareAlpha.threw \/ hareBeta.threw
        THEN Null
        ELSE [publicKey     |-> serializable.publicKey,
              iteration     |-> serializable.iteration,
              tortoisePoint |-> tortoisePoint.point,
              tortoiseAlpha |-> tortoiseAlpha.value,
              tortoiseBeta  |-> tortoiseBeta.value,
              harePoint     |-> harePoint.point,
              hareAlpha     |-> hareAlpha.value,
              hareBeta      |-> hareBeta.value,
              Q             |-> Q.point]

\* stateToCompact
StateToCompact(state, speed) ==
    Join(<< Slice(state.publicKey, 2),
            ToString16(state.iteration),
            ToString16(speed),
            ToHex(state.tortoisePoint),
            ToString16(state.tortoiseAlpha),
            ToString16(state.tortoiseBeta),
            ToHex(state.harePoint),
            ToString16(state.hareAlpha),
            ToString16(state.hareBeta) >>)

\* The try block of stateFromCompact (lines 466-487)
TryStateFromCompact(compact) ==
    LET parts == Split(compact)
    IN  IF Len(parts) # 9 THEN [threw |-> FALSE, value |-> Null]
        ELSE LET pubKeyHex == parts[1]
                 Q == ParsePublicKey(<<"0", "x">> \o pubKeyHex)
                 tortoisePoint == FromHex(parts[4])
                 tortoiseAlpha == BigIntOfHex(parts[5])
                 tortoiseBeta == BigIntOfHex(parts[6])
                 harePoint == FromHex(parts[7])
                 hareAlpha == BigIntOfHex(parts[8])
                 hareBeta == BigIntOfHex(parts[9])
             IN  IF \/ Q.threw
                    \/ tortoisePoint.threw \/ tortoiseAlpha.threw
                    \/ tortoiseBeta.threw
                    \/ harePoint.threw \/ hareAlpha.threw \/ hareBeta.threw
                 THEN [threw |-> TRUE, value |-> Null]
                 ELSE [threw |-> FALSE,
                       value |->
                           [state |->
                                [publicKey     |-> <<"0", "x">> \o pubKeyHex,
                                 iteration     |-> ParseInt16(parts[2]),
                                 tortoisePoint |-> tortoisePoint.point,
                                 tortoiseAlpha |-> tortoiseAlpha.value,
                                 tortoiseBeta  |-> tortoiseBeta.value,
                                 harePoint     |-> harePoint.point,
                                 hareAlpha     |-> hareAlpha.value,
                                 hareBeta      |-> hareBeta.value,
                                 Q             |-> Q.point],
                            speed |-> ParseInt16(parts[3])]]

\* stateFromCompact without its catch clause
StateFromCompactUncaught(compact) == TryStateFromCompact(compact)

\* stateFromCompact: the catch clause (lines 488-491) turns a throw into null
StateFromCompact(compact) ==
    LET tried == TryStateFromCompact(compact)
    IN  [threw |-> FALSE, value |-> IF tried.threw THEN Null ELSE tried.value]

\* The decimal digits of a non-negative integer
RECURSIVE Digits10(_)
Digits10(v) ==
    IF v < 10 THEN <<HexDigits[v + 1]>>
    ELSE Append(Digits10(v \div 10), HexDigits[(v % 10) + 1])

\* The value of a string of decimal digits
RECURSIVE DecimalValue(_)
DecimalValue(str) ==
    IF str = <<>> THEN 0
    ELSE 10 * DecimalValue(SubSeq(str, 1, Len(str) - 1)) + DigitValue(str[Len(str)])

\* JSON.stringify of a PollardRhoState: the strings as they are (they hold
\* nothing JSON escapes), the number in decimal
JSONStringify(serializable) ==
    [serializable EXCEPT !.iteration = Digits10(@)]

\* JSON.parse of such a text
JSONParse(json) == [json EXCEPT !.iteration = DecimalValue(@)]

\* Ways a compact text is damaged before it is decoded
Damages ==
    {"none", "empty", "eightFields", "tenFields", "keyNotHex", "keyShort",
     "keyNotAPoint", "tortoiseNotAPoint", "hareNotAPoint", "hareShort"}

\* Ways a numeric field of an encoded state is damaged: a letter that is
\* no hex digit put before it, or after it
NumericDamages ==
    {"iterationNotHex", "iterationTrailing", "speedNotHex", "speedTrailing",
     "alphaNotHex", "alphaTrailing", "betaNotHex", "betaTrailing"}

\* 64 hexadecimal digits that are the encoding of no point
NotAPoint == [i \in 1..64 |-> "f"]

Damage(kind, text) ==
    LET f == Split(text)
    IN  CASE kind = "none" -> text
          [] kind = "empty" -> <<>>
          [] kind = "eightFields" -> Join(SubSeq(f, 1, 8))
          [] kind = "tenFields" -> text \o <<"|", "0">>
          [] kind = "keyNotHex" -> Join([f EXCEPT ![1] = <<"g">> \o Tail(@)])
          [] kind = "keyShort" -> Join([f EXCEPT ![1] = Tail(@)])
          [] kind = "keyNotAPoint" -> Join([f EXCEPT ![1] = NotAPoint])
          [] kind = "tortoiseNotAPoint" -> Join([f EXCEPT ![4] = NotAPoint])
          [] kind = "hareNotAPoint" -> Join([f EXCEPT ![7] = NotAPoint])
          [] kind = "hareShort" -> Join([f EXCEPT ![7] = Tail(@)])
          [] kind = "iterationNotHex" -> Join([f EXCEPT ![2] = <<"g">> \o @])
          [] kind = "iterationTrailing" -> Join([f EXCEPT ![2] = @ \o <<"g">>])
          [] kind = "speedNotHex" -> Join([f EXCEPT ![3] = <<"g">> \o @])
          [] kind = "speedTrailing" -> Join([f EXCEPT ![3] = @ \o <<"g">>])
          [] kind = "alphaNotHex" -> Join([f EXCEPT ![5] = <<"g">> \o @])
          [] kind = "alphaTrailing" -> Join([f EXCEPT ![8] = @ \o <<"g">>])
          [] kind = "betaNotHex" -> Join([f EXCEPT ![9] = <<"g">> \o @])
          [] kind = "betaTrailing" -> Join([f EXCEPT ![6] = @ \o <<"g">>])

\* The same damage done to a coefficient of the persisted form
DamageSerializable(kind, serializable) ==
    CASE kind = "alphaNotHex" ->
             [serializable EXCEPT !.tortoise.alpha = <<"g">> \o @]
      [] kind = "alphaTrailing" ->
             [serializable EXCEPT !.hare.alpha = @ \o <<"g">>]
      [] kind = "betaNotHex" ->
             [serializable EXCEPT !.hare.beta = <<"g">> \o @]
      [] kind = "betaTrailing" ->
             [serializable EXCEPT !.tortoise.beta = @ \o <<"g">>]

CodecInit ==
    /\ storage = NoItem
    /\ n \in CodecOrders
    /\ enc = [p \in 0..(n - 1) |->
                 IF p = n - 1 THEN <<255, 255, 255, 242>> ELSE <<0, 0, 0, 3>>]
    /\ \E Q \in CodecKeys : \E publicKeyHex \in KeySpellings(Q) :
           st = InitializeStateText(publicKeyHex)
    /\ res = NoResult
    /\ log = <<>>
    /\ ghost = WalkStart(st)
    /\ Idle
    /\ hook = NoHook

\* The walk advanced by one performIterations call
CodecAdvance(b) ==
    /\ st.iteration + b <= CodecMaxIter
    /\ PerformIterationsCall(b)

StateToCompactCall(speed) ==
    /\ ret' = [op |-> "stateToCompact", of |-> st, speed |-> speed,
               text |-> StateToCompact(st, speed)]
    /\ UNCHANGED <<storage, hook, n, enc, st, res, log, ghost, arg>>

StateFromCompactCall(kind) ==
    /\ ret # <<>>
    /\ ret.op = "stateToCompact"
    /\ \E compact \in {Damage(kind, ret.text)} :
           ret' = [op |-> "stateFromCompact", of |-> ret.of, speed |-> ret.speed,
                   kind |-> kind, compact |-> compact,
                   result |-> StateFromCompact(compact)]
    /\ UNCHANGED <<storage, hook, n, enc, st, res, log, ghost, arg>>

StateToSerializableCall ==
    /\ ret' = [op |-> "stateToSerializable", of |-> st,
               serializable |-> StateToSerializable(st)]
    /\ UNCHANGED <<storage, hook, n, enc, st, res, log, ghost, arg>>

StateFromSerializableCall ==
    /\ ret # <<>>
    /\ ret.op = "stateToSerializable"
    /\ ret' = [op |-> "stateFromSerializable", of |-> ret.of,
               result |-> StateFromSerializable(ret.serializable)]
    /\ UNCHANGED <<storage, hook, n, enc, st, res, log, ghost, arg>>

\* stateFromSerializable given a form with a damaged coefficient
StateFromSerializableDamagedCall(kind) ==
    /\ ret # <<>>
    /\ ret.op = "stateToSerializable"
    /\ ret' = [op |-> "stateFromSerializableDamaged", of |-> ret.of,
               kind |-> kind,
               result |-> StateFromSerializable(
                              DamageSerializable(kind, ret.serializable))]
    /\ UNCHANGED <<storage, hook, n, enc, st, res, log, ghost, arg>>

\* saveState(state) (storage.ts lines 12-20), called while the scheduler's
\* last-known throughput is speed; arg keeps what was to be saved.
SaveState(speed) ==
    /\ storage' = JSONStringify(StateToSerializable(st))
    /\ arg' = [state |-> st, speed |-> speed]
    /\ ret' = [op |-> "saveState"]
    /\ UNCHANGED <<hook, n, enc, st, res, log, ghost>>

\* loadState() (storage.ts lines 25-36)
LoadState ==
    /\ ret' = [op |-> "loadState",
               result |-> IF storage = NoItem THEN Null
                          ELSE StateFromSerializable(JSONParse(storage))]
    /\ UNCHANGED <<storage, hook, n, enc, st, res, log, ghost, arg>>

CodecNext ==
    \/ \E b \in 1..MaxBatch : CodecAdvance(b)
    \/ \E speed \in CodecSpeeds : StateToCompactCall(speed)
    \/ \E kind \in Damages \cup NumericDamages : StateFromCompactCall(kind)
    \/ StateToSerializableCall
    \/ StateFromSerializableCall
    \/ \E kind \in {"alphaNotHex", "alphaTrailing", "betaNotHex", "betaTrailing"} :
           StateFromSerializableDamagedCall(kind)
    \/ \E speed \in CodecSpeeds : SaveState(speed)
    \/ LoadState

CodecSpec == CodecInit /\ [][CodecNext]_vars

(***************************************************************************)
(* validatePublicKeyFormat and parsePublicKey applied to key texts: a body *)
(* (the 64 digits of a point, in either case, or a damaged body) with or   *)
(* without a prefix and white space before the prefix, after it and at the *)
(* end.                                                                    *)
(***************************************************************************)
ToUpperCase(str) == [i \in 1..Len(str) |-> UpperDigits[DigitValue(str[i]) + 1]]

\* str.trim()
Trim(str) ==
    LET inked == {i \in 1..Len(str) : str[i] # " "}
    IN  IF inked = {} THEN <<>>
        ELSE SubSeq(str, CHOOSE i \in inked : \A j \in inked : i <= j,
                         CHOOSE i \in inked : \A j \in inked : i >= j)

KeyBodies ==
    LET h == ToHex(n - 1)
    IN  { h, ToUpperCase(h), Tail(h), h \o <<"0">>, <<"g">> \o Tail(h), <<>>,
          SubSeq(h, 1, 32) \o <<" ">> \o SubSeq(h, 33, 64), NotAPoint,
          <<"A">> \o Tail(NotAPoint) }

KeyTexts ==
    { before \o prefix \o between \o body \o after :
          before \in {<<>>, <<" ">>},
          prefix \in {<<>>, <<"0", "x">>, <<"0", "X">>},
          between \in {<<>>, <<" ">>},
          body \in KeyBodies,
          after \in {<<>>, <<" ">>} }

KeyInit ==
    /\ storage = NoItem
    /\ n \in CodecOrders
    /\ enc = [p \in 0..(n - 1) |->
                 IF p = n - 1 THEN <<255, 255, 255, 242>> ELSE <<0, 0, 0, 3>>]
    /\ st = Null
    /\ res = NoResult
    /\ log = <<>>
    /\ ghost = <<>>
    /\ arg \in [pubkeyHex : KeyTexts]
    /\ ret = <<>>
    /\ hook = NoHook

ValidatePublicKeyFormatCall ==
    /\ ret' = [op |-> "validatePublicKeyFormat",
               result |-> ValidatePublicKeyFormat(arg.pubkeyHex)]
    /\ UNCHANGED <<storage, hook, n, enc, st, res, log, ghost, arg>>

ParsePublicKeyCall ==
    /\ ret' = [op |-> "parsePublicKey",
               result |-> ParsePublicKey(arg.pubkeyHex)]
    /\ UNCHANGED <<storage, hook, n, enc, st, res, log, ghost, arg>>

KeyNext == ValidatePublicKeyFormatCall \/ ParsePublicKeyCall

KeySpec == KeyInit /\ [][KeyNext]_vars

(***************************************************************************)
(* start() given good and bad public keys, with reset, speed changes,     *)
(* renders and ticks.                                                      *)
(***************************************************************************)

\* Keys start() is given that parsePublicKey rejects: the empty text, 63
\* digits, a letter that is no hex digit, 64 digits that are no point
BadKeys ==
    { <<>>, Tail(ToHex(2)), <<"g">> \o Tail(ToHex(2)), NotAPoint }

StartNext ==
    \/ \E publicKey \in {PublicKeyOf(Q) : Q \in HookKeys} \cup BadKeys :
           StartCall(publicKey)
    \/ StartComplete
    \/ Reset
    \/ \E level \in SpeedLevels : SetSpeedLevel(level)
    \/ Render
    \/ \E id \in 1..MaxFrames, measured \in BOOLEAN, avgSpeed \in Throughputs,
          uiDue \in BOOLEAN : ExecuteChunk(id, measured, avgSpeed, uiDue)

StartSpec == HookInit /\ [][StartNext]_vars

(***************************************************************************)
(* initializeStateAsync: a promise, a timer of timeoutMs that rejects it   *)
(* and a timer of 0 ms that builds the state and settles it.  The host     *)
(* runs one callback at a time, a timer when it is due, timers due at the  *)
(* same time in the order they were set; arg.duration is the time the      *)
(* synchronous initializeState call takes.                                 *)
(***************************************************************************)
TimeBudgets == {0, 1, 3}
Durations == {0, 1, 2, 4}

\* resolve(state) and reject(error): a settled promise stays as it is
Resolve(promise, state) ==
    IF promise.status # "pending" THEN promise
    ELSE [status |-> "fulfilled", state |-> state, error |-> ""]

Reject(promise, error) ==
    IF promise.status # "pending" THEN promise
    ELSE [status |-> "rejected", state |-> Null, error |-> error]

AsyncInit ==
    /\ storage = NoItem
    /\ n \in CodecOrders
    /\ enc = [p \in 0..(n - 1) |->
                 IF p = n - 1 THEN <<255, 255, 255, 242>> ELSE <<0, 0, 0, 3>>]
    /\ st = Null
    /\ res = NoResult
    /\ log = <<>>
    /\ ghost = <<>>
    /\ arg \in [publicKeyHex : {PublicKeyOf(Q) : Q \in 1..(n - 1)} \cup BadKeys,
                timeoutMs : TimeBudgets, duration : Durations]
    /\ ret = <<>>
    /\ hook = NoHook

\* initializeStateAsync up to its return (lines 317-337): both timers set
InitializeStateAsyncCall ==
    /\ ret = <<>>
    /\ ret' = [clock |-> 0, timeoutId |-> TRUE, deferred |-> TRUE,
               promise |-> [status |-> "pending", state |-> Null, error |-> ""]]
    /\ UNCHANGED <<storage, hook, n, enc, st, res, log, ghost, arg>>

\* The callback of the timeout timer (lines 318-321)
TimeoutCallback ==
    /\ ret # <<>>
    /\ ret.timeoutId
    /\ ret.deferred => arg.timeoutMs <= 0
    /\ ret' = [ret EXCEPT !.clock = IF @ < arg.timeoutMs THEN arg.timeoutMs ELSE @,
                          !.timeoutId = FALSE,
                          !.promise = Reject(@, "timeout")]
    /\ UNCHANGED <<storage, hook, n, enc, st, res, log, ghost, arg>>

\* The callback of the 0 ms timer (lines 324-336)
DeferredCallback ==
    /\ ret # <<>>
    /\ ret.deferred
    /\ ret.timeoutId => arg.timeoutMs > 0
    /\ ret' = [ret EXCEPT
                  !.clock = @ + arg.duration,
                  !.deferred = FALSE,
                  !.timeoutId = FALSE,
                  !.promise = IF ParsePublicKey(arg.publicKeyHex).threw
                              THEN Reject(@, "invalid key")
                              ELSE Resolve(@, InitializeStateText(arg.publicKeyHex))]
    /\ UNCHANGED <<storage, hook, n, enc, st, res, log, ghost, arg>>

AsyncNext == InitializeStateAsyncCall \/ TimeoutCallback \/ DeferredCallback

AsyncSpec == AsyncInit /\ [][AsyncNext]_vars

(***************************************************************************)
(* calculateRemainingTime.  A JavaScript number is a fraction num/den      *)
(* (den > 0), Infinity, -Infinity or NaN; square roots are taken to the    *)
(* integer below, which keeps the sign and the kind of every result.       *)
(***************************************************************************)
Finite(num, den) == [kind |-> "finite", num |-> num, den |-> den]
Infinity == [kind |-> "Infinity", num |-> 1, den |-> 0]
MinusInfinity == [kind |-> "-Infinity", num |-> -1, den |-> 0]
NotANumber == [kind |-> "NaN", num |-> 0, den |-> 0]

\* -1, 0 or 1 for a number that is not NaN
Sign(x) == IF x.num > 0 THEN 1 ELSE IF x.num < 0 THEN -1 ELSE 0

\* x - y
Minus(x, y) ==
    IF x.kind = "NaN" \/ y.kind = "NaN" THEN NotANumber
    ELSE IF x.kind = "finite" /\ y.kind = "finite"
    THEN Finite(x.num * y.den - y.num * x.den, x.den * y.den)
    ELSE IF x.kind = "finite" THEN (IF y.kind = "Infinity" THEN MinusInfinity ELSE Infinity)
    ELSE IF y.kind = "finite" THEN x
    ELSE IF x.kind = y.kind THEN NotANumber ELSE x

\* x * y for finite x and y
Times(x, y) == Finite(x.num * y.num, x.den * y.den)

\* x / y: a division by zero gives an infinity, 0 / 0 and the quotient of
\* two infinities give NaN
DividedBy(x, y) ==
    IF x.kind = "NaN" \/ y.kind = "NaN" THEN NotANumber
    ELSE IF x.kind = "finite" /\ y.kind = "finite"
    THEN IF y.num = 0
         THEN (IF x.num = 0 THEN NotANumber
               ELSE IF x.num > 0 THEN Infinity ELSE MinusInfinity)
         ELSE IF y.num > 0 THEN Finite(x.num * y.den, x.den * y.num)
         ELSE Finite(-(x.num * y.den), x.den * (-y.num))
    ELSE IF x.kind = "finite" THEN Finite(0, 1)
    ELSE IF y.kind # "finite" THEN NotANumber
    ELSE IF Sign(x) * (IF y.num < 0 THEN -1 ELSE 1) > 0 THEN Infinity
    ELSE MinusInfinity

\* x < y: false when either is NaN
LessThan(x, y) ==
    IF x.kind = "NaN" \/ y.kind = "NaN" THEN FALSE
    ELSE IF x.kind = "finite" /\ y.kind = "finite"
    THEN (x.num \div x.den) < (y.num \div y.den)
         \/ ((x.num \div x.den) = (y.num \div y.den)
             /\ (x.num % x.den) * y.den < (y.num % y.den) * x.den)
    ELSE IF x.kind = y.kind THEN FALSE
    ELSE x.kind = "-Infinity" \/ y.kind = "Infinity"

\* Math.sqrt of a finite number that is not negative
Sqrt(x) ==
    Finite(CHOOSE r \in 0..(x.num \div x.den) :
               r * r <= x.num \div x.den /\ (r + 1) * (r + 1) > x.num \div x.den,
           1)

\* Math.PI
PI == Finite(355, 113)

\* Math.floor(Math.log10(x)) for x >= 1000000 or x not finite
RECURSIVE FloorLog10(_)
FloorLog10(x) ==
    IF x.kind = "Infinity" THEN Infinity
    ELSE IF x.kind # "finite" THEN NotANumber
    ELSE IF x.num \div x.den < 10 THEN Finite(0, 1)
    ELSE Finite(1 + FloorLog10(Finite(x.num \div 10, x.den)).num, 1)

\* Math.pow(10, exp)
RECURSIVE Pow10(_)
Pow10(exp) ==
    IF exp.kind = "Infinity" THEN Infinity
    ELSE IF exp.kind # "finite" THEN NotANumber
    ELSE IF exp.num = 0 THEN Finite(1, 1)
    ELSE Times(Finite(10, 1), Pow10(Finite(exp.num - 1, 1)))

\* x < 10^e, for a power too large to be written as a fraction here
LessThanPow10(x, e) ==
    IF x.kind = "finite" THEN x.num <= 0 \/ LessThan(FloorLog10(x), Finite(e, 1))
    ELSE x.kind = "-Infinity"

\* The text a caller shows when no estimate can be made (hook line 167)
Unknown == [template |-> "unknown", value |-> NotANumber, exp |-> NotANumber]

\* Seconds in a year (line 530)
SecondsPerYear == 31557600

\* expectedOps and remainingOps (lines 526-527)
ExpectedOps == Sqrt(DividedBy(Times(PI, Finite(n, 1)), Finite(2, 1)))
RemainingOps(iteration) == Minus(ExpectedOps, Finite(iteration, 1))

\* calculateRemainingTime
CalculateRemainingTime(iteration, opsPerSecond) ==
    LET remainingSeconds == DividedBy(RemainingOps(iteration), Finite(opsPerSecond, 1))
        years == DividedBy(remainingSeconds, Finite(SecondsPerYear, 1))
        exp == FloorLog10(years)
        mantissa == DividedBy(years, Pow10(exp))
    IN  [years |-> years,
         text |-> IF LessThan(years, Finite(1000000, 1))
                  THEN [template |-> "years", value |-> years, exp |-> Finite(0, 1)]
                  ELSE IF LessThanPow10(years, 20)
                  THEN [template |-> "power", value |-> mantissa, exp |-> exp]
                  ELSE [template |-> "universe", value |-> mantissa, exp |-> exp]]

TimeInit ==
    /\ storage = NoItem
    /\ n \in TimeOrders
    /\ enc = [p \in 0..(n - 1) |-> <<0, 0, 0, 3>>]
    /\ st = Null
    /\ res = NoResult
    /\ log = <<>>
    /\ ghost = <<>>
    /\ arg \in [iteration : 0..MaxElapsed, opsPerSecond : SpeedSamples]
    /\ ret = <<>>
    /\ hook = NoHook

CalculateRemainingTimeCall ==
    /\ ret' = CalculateRemainingTime(arg.iteration, arg.opsPerSecond)
    /\ UNCHANGED <<storage, hook, n, enc, st, res, log, ghost, arg>>

TimeNext == CalculateRemainingTimeCall

TimeSpec == TimeInit /\ [][TimeNext]_vars

(***************************************************************************)
(* modInverse applied directly to a in -(m-1)..(m-1), the values the       *)
(* truncating remainder of solveForK gives it, with m = n.                 *)
(***************************************************************************)
InverseInit ==
    /\ storage = NoItem
    /\ n \in InverseModuli
    /\ enc = [p \in 0..(n - 1) |-> <<0, 0, 0, 3>>]
    /\ st = Null
    /\ res = NoResult
    /\ log = <<>>
    /\ ghost = <<>>
    /\ arg \in [a : (1 - n)..(n - 1)]
    /\ ret = <<>>
    /\ hook = NoHook

ModInverseCall ==
    /\ ret' = ModInverse(arg.a, n)
    /\ UNCHANGED <<storage, hook, n, enc, st, res, log, ghost, arg>>

InverseNext == ModInverseCall

InverseSpec == InverseInit /\ [][InverseNext]_vars

(***************************************************************************)
(* Properties                                                              *)
(***************************************************************************)
\* point == alpha*G + beta*Q, computed in Z_n
Tracked(w, Q) == w.point = (w.alpha * G + w.beta * Q) % n

\* One iterationStep, as a tracked point
StepTracked(w, Q) ==
    Let(IterationStep(w.point, w.alpha, w.beta, Q), LAMBDA r :
        [point |-> r.point, alpha |-> r.alpha, beta |-> r.beta])

\* j iterationSteps in a row
RECURSIVE Iterate(_, _, _)
Iterate(w, Q, j) ==
    IF j = 0 THEN w ELSE Let(StepTracked(w, Q), LAMBDA v : Iterate(v, Q, j - 1))

\* C1: in every state reachable from initializeState by performIterations
\* calls, reseeds included, the tortoise and the hare both satisfy
\* point == alpha*G + beta*Q.
C1_AlgebraicInvariant ==
    Tracked(Tortoise(st), st.Q) /\ Tracked(Hare(st), st.Q)

\* The two coefficient pairs of arg describe the same point.
Colliding ==
    (arg.tortoiseAlpha * G + arg.tortoiseBeta * arg.Q) % n
        = (arg.hareAlpha * G + arg.hareBeta * arg.Q) % n

\* C2: for every non-trivial collision (coefficients in 0..n-1, the two
\* pairs describing the same point, beta_t # beta_h) solveForK returns the
\* discrete log of Q, which in Z_n with G = 1 is Q itself.
C2_SolverExact ==
    (ret.done /\ Colliding /\ arg.tortoiseBeta # arg.hareBeta)
        => ret.value = Some(arg.Q)

\* C3: a non-null k returned by solveForK satisfies k*G == Q.
C3_VerifiedKeyOnly ==
    (ret.done /\ ret.value # Null) => (ret.value[1] * G) % n = arg.Q

C3_Witness ==
    /\ ret.done
    /\ ret.value # Null
    /\ Colliding
    /\ arg.tortoiseBeta # arg.hareBeta

\* C4: on the toy group of order 23 with Q = 2*G and batches of one
\* iteration the engine eventually reports a collision with private key 2.
C4_ToyEventuallySolved == <>(res.collision /\ res.privateKey = Some(2))

\* C5: a tick whose collision the solver could not use reseeds: the loop
\* goes on, both walkers hold the same point, alpha is the stepped
\* tortoise's alpha + 1 mod n, beta is the stepped tortoise's beta, and each
\* walker satisfies point == alpha*G + beta*Q.
C5_ReseedContract ==
    \A j \in 1..Len(log) :
        (log[j].solverCalled /\ log[j].k = Null) =>
            /\ log[j].kind = "reseed"
            /\ log[j].end.tortoisePoint = log[j].end.harePoint
            /\ log[j].end.tortoiseAlpha = (log[j].stepped.tortoiseAlpha + 1) % n
            /\ log[j].end.hareAlpha = log[j].end.tortoiseAlpha
            /\ log[j].end.tortoiseBeta = log[j].stepped.tortoiseBeta
            /\ log[j].end.hareBeta = log[j].stepped.tortoiseBeta
            /\ Tracked(Tortoise(log[j].end), st.Q)
            /\ Tracked(Hare(log[j].end), st.Q)

\* The first four bytes as an unsigned big-endian integer, modulo 20
\* (2^16 % 20 = 16).
UnsignedBE20(b) == ((((b[1] * 256 + b[2]) % 20) * 16) + b[3] * 256 + b[4]) % 20

\* C6: the partition index is the first four bytes of the encoding read as
\* an unsigned big-endian 32-bit integer, modulo 20, and lies in 0..19.
C6_PartitionUnsigned ==
    ret.done =>
        /\ ret.value \in 0..19
        /\ ret.value = UnsignedBE20(enc[arg.point])

\* C7: iterationStep never fails and maps (P, alpha, beta) to
\* (P + c*G + d*Q, (alpha + c) mod n, (beta + d) mod n), (c, d) being (1, 0)
\* for partition 0..9 of P and (2, 1) for partition 10..19.
C7_StepRule ==
    ret.done =>
        LET idx == PartitionFunction(ret.in.point)
            c == IF idx <= 9 THEN 1 ELSE 2
            d == IF idx <= 9 THEN 0 ELSE 1
        IN  /\ idx \in 0..19
            /\ ~ret.out.threw
            /\ ret.out.point = (ret.in.point + c * G + d * ret.in.Q) % n
            /\ ret.out.alpha = (ret.in.alpha + c) % n
            /\ ret.out.beta = (ret.in.beta + d) % n

\* both rules applied, with a coefficient wrapping around n
C7_Witness ==
    /\ ret.done
    /\ ret.count >= 2
    /\ PartitionFunction(ret.in.point) >= 10
    /\ ret.out.alpha < ret.in.alpha
    /\ arg.beta > 0

\* C8: a tracked point with point == alpha*G + beta*Q still satisfies it
\* after any number of iterationStep applications.
C8_StepKeepsInvariant == Tracked(arg, arg.Q)

C8_Witness ==
    /\ ret.done
    /\ ret.count >= 3
    /\ ret.out.beta < ret.in.beta
    /\ arg.point # ret.in.point

\* C9: after every completed tick the hare has made exactly twice as many
\* iterationSteps as the tortoise since the walk started (initializeState
\* or the last reseed), and in each tick the hare's second step starts from
\* the result of its first.
C9_HareTwiceTortoise ==
    /\ Tortoise(st) = Iterate(ghost.tortoiseStart, st.Q, ghost.ticks)
    /\ Hare(st) = Iterate(ghost.hareStart, st.Q, 2 * ghost.ticks)
    /\ \A j \in 1..Len(log) :
           /\ Tortoise(log[j].stepped) = StepTracked(Tortoise(log[j].before), st.Q)
           /\ log[j].hareMid = StepTracked(Hare(log[j].before), st.Q)
           /\ Hare(log[j].stepped) = StepTracked(log[j].hareMid, st.Q)

\* several ticks into a walk that a reseed started, the hare's two steps
\* of the last tick taking different update rules
C9_Witness ==
    /\ ghost.ticks >= 2
    /\ ghost.tortoiseStart # Tortoise(InitializeState(st.Q))
    /\ Len(log) >= 1
    /\ log[Len(log)].kind = "continue"
    /\ log[Len(log)].hareMid.beta # log[Len(log)].before.hareBeta
    /\ log[Len(log)].stepped.hareBeta = log[Len(log)].hareMid.beta

\* C10: the ticks of a batch run in order, each from the state the previous
\* one left, none skipped; the points are compared after every tick, so the
\* solver is invoked in exactly the ticks after which they coincide, and no
\* tick follows one that returned or threw.
C10_CheckedEveryTick ==
    /\ \A j \in 1..Len(log) :
           /\ log[j].solverCalled
                  <=> (log[j].stepped.tortoisePoint = log[j].stepped.harePoint)
           /\ j > 1 => log[j].before = log[j - 1].end
           /\ j < Len(log) => log[j].kind \in {"continue", "reseed"}
    /\ Len(log) <= res.batch
    /\ (~res.threw /\ ~res.collision) => Len(log) = res.batch
    /\ (~res.threw /\ res.batch > 0) => Locals(st) = log[Len(log)].end
    /\ res.collision <=> (Len(log) > 0 /\ log[Len(log)].kind = "return")

\* a coincidence before the last tick of a batch, handled in that tick
C10_Witness ==
    \E j \in 1..Len(log) :
        /\ j < Len(log)
        /\ log[j].solverCalled
        /\ log[j].stepped.tortoisePoint = log[j].stepped.harePoint
        /\ ~res.threw

\* The solver's answer for the walkers a tick has stepped to.
SolvedAt(e, Q) ==
    SolveForK(e.stepped.tortoiseAlpha, e.stepped.tortoiseBeta,
              e.stepped.hareAlpha, e.stepped.hareBeta, Q)

\* C11: when the solver returns a verified key at tick i (1-based) of a
\* batch, performIterations returns at once: i is the last tick made, the
\* result has collision = true and that key, the returned iteration is the
\* previous iteration + i, and the returned walkers are those of tick i.
C11_ReturnsAtSolvingTick ==
    [][\A i \in 1..Len(log') :
           (/\ log'[i].stepped.tortoisePoint = log'[i].stepped.harePoint
            /\ SolvedAt(log'[i], st.Q) # Null)
           => /\ i = Len(log')
              /\ ~res'.threw
              /\ res'.collision
              /\ res'.privateKey = SolvedAt(log'[i], st.Q)
              /\ (res'.privateKey[1] * G) % n = st.Q
              /\ st'.iteration = st.iteration + i
              /\ Locals(st') = log'[i].stepped
              /\ st'.Q = st.Q]_vars

\* a key found before the last tick of a batch, in a call that is not the
\* first one
C11_Witness ==
    /\ res.collision
    /\ Len(log) < res.batch
    /\ st.iteration > Len(log)

\* C12: a batch of size b in which no tick gives a verified key returns
\* collision = false, privateKey = null and iteration = previous iteration
\* + b; and a result has collision = true exactly when its privateKey is
\* not null.
C12_NoKeyFullBatch ==
    [][/\ (\A i \in 1..Len(log') :
               ~(/\ log'[i].stepped.tortoisePoint = log'[i].stepped.harePoint
                 /\ SolvedAt(log'[i], st.Q) # Null))
           => /\ ~res'.threw
              /\ ~res'.collision
              /\ res'.privateKey = Null
              /\ st'.iteration = st.iteration + res'.batch
       /\ res'.collision <=> (res'.privateKey # Null)]_vars

\* C13: solveForK returns null whenever hareBeta and tortoiseBeta are
\* congruent modulo n, whatever the alphas are.
C13_TrivialGivesNull ==
    (ret.done /\ (arg.hareBeta - arg.tortoiseBeta) % n = 0) => ret.value = Null

\* congruent but different betas, and alphas whose difference is the key
C13_Witness ==
    /\ ret.done
    /\ ret.value = Null
    /\ arg.hareBeta # arg.tortoiseBeta
    /\ (arg.hareBeta - arg.tortoiseBeta) % n = 0
    /\ arg.tortoiseAlpha - arg.hareAlpha = arg.Q

\* d has no inverse modulo n although it is not a multiple of n
NonInvertible(d) ==
    /\ d % n # 0
    /\ ~\E x \in 0..(n - 1) : (d * x) % n = 1

\* C14: when hareBeta - tortoiseBeta has no inverse modulo n (it shares a
\* non-trivial factor with a composite n), solveForK returns null.
C14_NonInvertibleGivesNull ==
    (ret.done /\ NonInvertible(arg.hareBeta - arg.tortoiseBeta))
        => ret.value = Null

C16_SolvedStaysSolved == hook.solved => Status(hook.ui) # "Running"

ResetDone(h, state) ==
    /\ state = Null
    /\ h.frames = {}
    /\ h.speedRef = 0
    /\ ~h.next.isRunning
    /\ ~h.next.isPaused
    /\ ~h.next.hasFoundKey
    /\ h.next.privateKey = Null
    /\ h.next.uiIteration = 0
    /\ h.next.uiSpeed = 0

\* C18: reset(), invoked in any state, discards the walk state, cancels the
\* pending tick and clears iteration, throughput, found-key flag, key,
\* running and paused; the render that follows shows an Idle scheduler
\* with iteration 0, throughput 0 and no key.
C18_ResetClearsEverything ==
    [][/\ hook'.last.op = "reset" => ResetDone(hook', st')
       /\ (hook.last.op = "reset" /\ hook'.last.op = "render") =>
              /\ ResetDone(hook', st')
              /\ Status(hook'.ui) = "Idle"
              /\ ~hook'.ui.isPaused
              /\ hook'.ui.uiIteration = 0
              /\ hook'.ui.uiSpeed = 0
              /\ hook'.ui.privateKey = Null]_vars

\* reset() invoked while Running with a frame requested and a measured
\* throughput, then rendered
C18_Witness ==
    /\ hook.last.op = "render"
    /\ hook.last.status = "Running"
    /\ hook.last.ticking = FALSE
    /\ Status(hook.ui) = "Idle"
    /\ st = Null
    /\ hook.requestRef # 0

\* C19: after a reset() invoked while a start() was still initializing
\* (hook.orphaned), once that initialization has completed no walk state is
\* held and the scheduler is not set Running.
C19_ResetOrphansNothing ==
    (hook.orphaned /\ hook.starting = <<>>) =>
        /\ st = Null
        /\ ~hook.next.isRunning
        /\ ~hook.ui.isRunning

C22_RunningHasTick ==
    (/\ hook.ui = hook.next
     /\ Status(hook.ui) = "Running"
     /\ st # Null
     /\ ~hook.ui.hasFoundKey
     /\ hook.last.op # "threw")
        => hook.frames # {}

\* C23: pause() and resume() leave the walk state (target, iteration
\* count, both walkers' points and coefficients) as it was.
C23_PauseResumeKeepWalk ==
    [][hook'.last.op \in {"pause", "resume"} => st' = st]_vars

\* resume() invoked on a Paused scheduler whose walk has made iterations
C23_Witness ==
    /\ hook.last.op = "resume"
    /\ hook.last.status = "Paused"
    /\ st # Null
    /\ st.iteration > 0

\* C24: performIterations never changes the target: the state it returns
\* has the Q and the publicKey of the state it was given, whatever the
\* batch size and whether or not the batch reseeds or solves; and the
\* object it was given is as it was before the call.
C24_TargetUnchanged ==
    /\ ret.calls >= 1 =>
           /\ arg.state = arg.before
           /\ ~ret.first.threw =>
                  /\ ret.first.state.Q = arg.before.Q
                  /\ ret.first.state.publicKey = arg.before.publicKey
    /\ ret.calls = 2 =>
           /\ ret.second.input = arg.before
           /\ ~ret.second.threw =>
                  /\ ret.second.state.Q = arg.before.Q
                  /\ ret.second.state.publicKey = arg.before.publicKey

\* a batch of several iterations, begun on a state an earlier call
\* returned, that reseeds and then solves
C24_Witness ==
    /\ ret.calls >= 1
    /\ arg.before.iteration > 0
    /\ arg.iterations >= 2
    /\ ret.first.collision
    /\ \E j \in 1..Len(ret.first.log) : ret.first.log[j].kind = "reseed"

\* C25: across successive performIterations calls of a run the iteration
\* count never decreases: a call with batch size b >= 1 increases it by at
\* least 1 and at most b.
C25_IterationAdvances ==
    [][/\ st'.iteration >= st.iteration + 1
       /\ st'.iteration <= st.iteration + res'.batch]_vars

C27_CompactRoundTrip ==
    (ret # <<>> /\ ret.op = "stateFromCompact" /\ ret.kind = "none") =>
        ret.result = [threw |-> FALSE,
                      value |-> [state |-> ret.of, speed |-> ret.speed]]

\* C28: stateFromSerializable(stateToSerializable(s)) gives back s field
\* for field: the public key, the iteration count, both walkers' points
\* and coefficients (and the target), for every valid walk state s.
C28_SerializableRoundTrip ==
    (ret # <<>> /\ ret.op = "stateFromSerializable") => ret.result = ret.of

\* a walk begun from a key without prefix, some iterations old, decoded
C28_Witness ==
    /\ ret # <<>>
    /\ ret.op = "stateFromSerializable"
    /\ ret.of.iteration >= 2
    /\ ~StartsWith(ret.of.publicKey, <<"0", "x">>)
    /\ ret.of.tortoisePoint # ret.of.harePoint
    /\ ret.result # Null

\* C29: both encoded forms carry the last-known throughput: what loadState
\* decodes from the form saved for (state, throughput) has that
\* throughput, as what stateFromCompact decodes has.
C29_BothCarryThroughput ==
    /\ (ret # <<>> /\ ret.op = "loadState" /\ storage # NoItem) =>
           /\ ret.result # Null
           /\ "speed" \in DOMAIN ret.result
           /\ ret.result.speed = arg.speed
    /\ (/\ ret # <<>> /\ ret.op = "stateFromCompact" /\ ret.kind = "none"
        /\ ret.result.value # Null) =>
           ret.result.value.speed = ret.speed

\* C30: stateFromCompact returns null for a text that does not split on
\* '|' into nine fields and for a text whose public key or walker point
\* the decoder rejects; it never throws, and what it returns is null or a
\* whole state with a speed.
C30_RejectsAsNull ==
    (ret # <<>> /\ ret.op = "stateFromCompact") =>
        /\ ~ret.result.threw
        /\ Len(Split(ret.compact)) # 9 => ret.result.value = Null
        /\ ret.kind \in Damages \ {"none"} => ret.result.value = Null
        /\ ret.result.value # Null =>
               /\ DOMAIN ret.result.value = {"state", "speed"}
               /\ DOMAIN ret.result.value.state = AlgorithmStateFields

\* a text of nine fields with a walker point the decoder rejects, made
\* from a walk some iterations old, decoded to null
C30_Witness ==
    /\ ret # <<>>
    /\ ret.op = "stateFromCompact"
    /\ ret.kind = "hareNotAPoint"
    /\ Len(Split(ret.compact)) = 9
    /\ ret.of.iteration >= 2
    /\ ret.result = [threw |-> FALSE, value |-> Null]

\* C31: decoding a compact or persisted text in which a numeric field
\* (iteration, speed, alpha, beta) is not a hex number gives null: never a
\* state whose field is NaN or the value of a prefix of the text.
C31_BadNumberGivesNull ==
    /\ (ret # <<>> /\ ret.op = "stateFromCompact" /\ ret.kind \in NumericDamages)
           => ret.result.value = Null
    /\ (ret # <<>> /\ ret.op = "stateFromSerializableDamaged")
           => ret.result = Null

\* C32: validatePublicKeyFormat accepts exactly the texts made of optional
\* white space, an optional 0x or 0X, 64 hex digits of either case and
\* optional white space (a prefixed key after white space included), and
\* rejects every other; parsePublicKey throws on the texts it rejects.
C32_AcceptsExactlyKeys ==
    LET trimmed == Trim(arg.pubkeyHex)
        digits == IF StartsWith(trimmed, <<"0", "x">>)
                     \/ StartsWith(trimmed, <<"0", "X">>)
                  THEN Slice(trimmed, 2) ELSE trimmed
        wellFormed == Len(digits) = 64 /\ IsHexString(digits)
    IN  /\ (ret # <<>> /\ ret.op = "validatePublicKeyFormat")
               => ret.result = wellFormed
        /\ (ret # <<>> /\ ret.op = "parsePublicKey" /\ ~wellFormed)
               => ret.result.threw

\* C33: when start() is given a public key of wrong length, with a
\* character that is no hex digit, empty, or that decodes to no point, no
\* walk state is created, the scheduler is not made Running and no tick is
\* scheduled, by the call or by the render that follows it.
C33_BadKeyStartsNothing ==
    [][/\ hook'.last.op = "startFailed" =>
              /\ Head(hook.starting) \in BadKeys
              /\ st' = st
              /\ ~hook'.next.isRunning
              /\ hook'.frames \subseteq hook.frames
       /\ (hook.starting # <<>> /\ Head(hook.starting) \in BadKeys
           /\ hook'.starting # hook.starting /\ hook'.last.op # "start") =>
              hook'.last.op = "startFailed"
       /\ (hook.last.op = "startFailed" /\ hook'.last.op = "render") =>
              /\ Status(hook'.ui) # "Running"
              /\ hook'.frames = {}]_vars

\* a bad key given while a walk was running with a tick pending
C33_Witness ==
    /\ hook.last.op = "startFailed"
    /\ hook.last.status = "Running"
    /\ hook.last.ticking
    /\ st # Null
    /\ st.iteration > 0

\* C34: if building the initial state does not complete within the time
\* budget given by the caller, initializeStateAsync rejects with a timeout
\* error and yields no state; the promise settles once, with a state or
\* with an error, never both.
C34_TimeoutRejects ==
    /\ (ret # <<>> /\ ~ret.deferred /\ arg.duration > arg.timeoutMs) =>
           /\ ret.promise.status = "rejected"
           /\ ret.promise.error = "timeout"
           /\ ret.promise.state = Null
    /\ ret # <<>> =>
           /\ ret.promise.status = "fulfilled" =>
                  ret.promise.state # Null /\ ret.promise.error = ""
           /\ ret.promise.status = "rejected" =>
                  ret.promise.state = Null /\ ret.promise.error # ""

\* C35: calculateRemainingTime called with opsPerSecond <= 0 returns the
\* 'unknown' text and a years field that is neither NaN nor infinite, for
\* every iteration count.
C35_NoSpeedGivesUnknown ==
    (ret # <<>> /\ arg.opsPerSecond <= 0) =>
        /\ ret.text = Unknown
        /\ ret.years.kind = "finite"

\* C36: the remaining work calculateRemainingTime computes is
\* max(0, expectedTotal - iterationCount): it is never negative, also when
\* the iteration count is beyond the expected total.
C36_RemainingNotNegative ==
    ret # <<>> =>
        /\ ~LessThan(RemainingOps(arg.iteration), Finite(0, 1))
        /\ LessThan(ExpectedOps, Finite(arg.iteration, 1)) =>
               RemainingOps(arg.iteration).num = 0
        /\ arg.opsPerSecond > 0 => ~LessThan(ret.years, Finite(0, 1))

\* C37: at most one tick is pending at any time, under every interleaving
\* of start, pause, resume, reset, speed changes, renders and ticks: two
\* batches are never queued against the same walk state.
C37_OneTickPending == Cardinality(hook.frames) <= 1

\* a tick requested anew by the render of a speed change, in a run some
\* iterations old
C37_Witness ==
    /\ hook.last.op = "render"
    /\ hook.last.ticking
    /\ hook.frames = {hook.requestRef}
    /\ Status(hook.ui) = "Running"
    /\ hook.ui.speedLevel = "slow"
    /\ st # Null
    /\ st.iteration > 0

\* C38: performIterations raises no error, for every reachable state and
\* every positive batch size, also when a reseed gives alpha = 0 or is
\* computed with a tortoise beta of 0.
C38_NeverThrows == ~res.threw

\* C39: in every state reached from initializeState through
\* performIterations the four coefficients (tortoise alpha and beta, hare
\* alpha and beta) are in 0..n-1.
C39_CoefficientsInRange ==
    /\ st.tortoiseAlpha \in 0..(n - 1)
    /\ st.tortoiseBeta \in 0..(n - 1)
    /\ st.hareAlpha \in 0..(n - 1)
    /\ st.hareBeta \in 0..(n - 1)

\* a walk that has been reseeded, with a coefficient that wrapped around
\* to 0 and another at n - 1
C39_Witness ==
    /\ ghost.tortoiseStart.alpha # 1
    /\ st.iteration >= 3
    /\ 0 \in {st.tortoiseAlpha, st.tortoiseBeta, st.hareAlpha, st.hareBeta}
    /\ (n - 1) \in {st.tortoiseAlpha, st.tortoiseBeta, st.hareAlpha, st.hareBeta}

\* C40: modInverse(a, m) returns x in 0..m-1 with a*x congruent to 1
\* modulo m for every a coprime to m, negative a included, and throws for
\* every a that is not coprime to m.
C40_InverseOrThrow ==
    LET coprime == \A d \in 2..n : ~(Abs(arg.a) % d = 0 /\ n % d = 0)
    IN  ret # <<>> =>
            IF coprime
            THEN /\ ~ret.threw
                 /\ ret.value \in 0..(n - 1)
                 /\ (arg.a * ret.value - 1) % n = 0
            ELSE ret.threw

====
